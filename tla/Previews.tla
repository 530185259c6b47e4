------------------------------ MODULE Previews ------------------------------
(***************************************************************************)
(* The previews of a result of the apps scope: which one is made           *)
(* (Preview::build_strategy), what it offers for the manifest "click info" *)
(* printed (InstalledPreview, UninstallConfirmationPreview) and what the   *)
(* scope answers when one of its buttons is pressed                        *)
(* (Scope::perform_action).                                                *)
(***************************************************************************)
EXTENDS AppsQuery

CONSTANTS
    Clicks,         \* the packages "click info" knows when they are installed
    Scopes,         \* the scopes they install
    Hooks,          \* the hooks of a manifest, in its order: applications and scopes
    PlainUris       \* the results whose uri has no character appurl_match rejects

ASSUME PreviewAssumption ==
    /\ Clicks \subseteq Pkgs
    /\ Scopes \cap Apps = {}
    /\ Hooks \in [Clicks -> Seq(Apps \cup Scopes)]
    /\ \A a \in Apps : \A p \in Clicks : PackageOf[a] = p <=> a \in ToSet(Hooks[p])
    /\ PlainUris \subseteq Apps

-----------------------------------------------------------------------------
\* Manifest(): nothing is known.
NoManifest == [app |-> {}, scope |-> {}, removable |-> FALSE]

\* The first hook of a kind, if there is one.
FirstHook(hooks, kind) ==
    {hooks[i] : i \in {j \in DOMAIN hooks : hooks[j] \in kind /\ \A k \in 1..(j - 1) : hooks[k] \notin kind}}

\* Mutant: any hook is taken for an application, as in manifest_list_from_json().
ManifestOfHooks(p, removable) ==
    [app |-> FirstHook(Hooks[p], Apps \cup Scopes), scope |-> FirstHook(Hooks[p], Scopes),
     removable |-> p \in removable]

\* manifest_from_json(): a hook is an application or a scope by its keys, and the
\* first of each kind is kept (first_app_name, first_scope_id).  Whether a package
\* is "_removable" is what "click info" says of it now.
Manifest(p, removable) ==
    [app |-> FirstHook(Hooks[p], Apps), scope |-> FirstHook(Hooks[p], Scopes), removable |-> p \in removable]

\* get_manifest_for_app(): the command, or reading what it printed, may fail.
Manifests(installed, removable, p) ==
    {NoManifest} \cup {Manifest(q, removable) : q \in {p} \cap Clicks \cap installed}

\* getApplicationUri(): the result itself or, when its uri is not recognised, the
\* first application or scope of its package.
ApplicationUri(manifest, a) ==
    IF a \in PlainUris THEN {a} ELSE IF manifest.app # {} THEN manifest.app ELSE manifest.scope

\* Mutant: the uninstall button is always there.
ButtonsForAll(manifest, a) ==
    {"uninstall_click"} \cup (IF ApplicationUri(manifest, a) # {} THEN {"open_click"} ELSE {})

\* createButtons()
Buttons(manifest, a) ==
    (IF ApplicationUri(manifest, a) # {} THEN {"open_click"} ELSE {})
        \cup (IF manifest.removable THEN {"uninstall_click"} ELSE {})

-----------------------------------------------------------------------------
\* The preview a hint of the activation asks for.
Strategy(hints) ==
    CASE "show_installed" \in hints -> "installed"
      [] "uninstall_click" \in hints -> "confirm"
      [] "confirm_uninstall" \in hints -> "uninstalling"
      [] OTHER -> "uninstalled"

InstalledPreviews(installed, removable, a, lonely) ==
    {[app |-> a, lonely |-> lonely, kind |-> "installed", open |-> ApplicationUri(m, a), buttons |-> Buttons(m, a)]
        : m \in Manifests(installed, removable, PackageOf[a])}

ConfirmationPreview(a, lonely) ==
    [app |-> a, lonely |-> lonely, kind |-> "confirm", open |-> {},
     buttons |-> {"show_installed", "confirm_uninstall"}]

\* It pushes nothing.
UninstalledPreview(a, lonely) ==
    [app |-> a, lonely |-> lonely, kind |-> "uninstalled", open |-> {}, buttons |-> {}]

\* perform_action(): every action but confirm_uninstall asks for a preview, with
\* the action as its hint if it is one of three.
PerformAction(action) == {action} \cap {"uninstall_click", "show_installed", "show_uninstalled"}

\* The previews that may follow the press of a button.
PreviewsAfter(installed, removable, preview, action) ==
    LET kind == Strategy(PerformAction(action))
    IN  IF kind = "installed" THEN InstalledPreviews(installed, removable, preview.app, preview.lonely)
        ELSE IF kind = "confirm" THEN {ConfirmationPreview(preview.app, preview.lonely)}
        ELSE {UninstalledPreview(preview.app, preview.lonely)}

=============================================================================
