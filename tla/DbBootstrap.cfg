CONSTANTS
    Names = {"games", "music"}
SPECIFICATION Spec
INVARIANTS
    VersionsAreNamed
    JobConverges
