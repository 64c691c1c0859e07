------------------------------ MODULE Catalog ------------------------------
(***************************************************************************)
(* What a moderated registry promises of one tool's public page: nothing   *)
(* is ever shown, now or after a restart, that a moderator has not let     *)
(* through.  The page has two copies, the one served from memory and the   *)
(* one kept in storage.  A store that fails leaves them different; a       *)
(* restart, or a release decision, serves the kept copy again.             *)
(* ToolRegistry implements this specification.                             *)
(***************************************************************************)
CONSTANTS Contents,     \* what a page can show: one submission's manifest and attestation
          Hidden        \* no page

VARIABLES shown,    \* the content served from memory, or Hidden
          kept,     \* the content storage would serve after a restart, or Hidden
          cleared   \* the contents a moderator has let through so far

vars == <<shown, kept, cleared>>

Init == shown = Hidden /\ kept = Hidden /\ cleared = {}

\* A moderator lets c through: it is shown unless something else hides it,
\* and kept if the store succeeds.
LetThrough(c) ==
    /\ cleared' = cleared \cup {c}
    /\ shown' \in {c, Hidden}
    /\ kept' \in {kept, shown'}

TakeDown ==
    /\ shown' = Hidden
    /\ kept' \in {kept, Hidden}
    /\ UNCHANGED cleared

\* The served copy is written to storage.
Keep ==
    /\ kept' = shown
    /\ UNCHANGED <<shown, cleared>>

\* The kept copy is served again.
Reload ==
    /\ shown' = kept
    /\ UNCHANGED <<kept, cleared>>

Next == (\E c \in Contents : LetThrough(c)) \/ TakeDown \/ Keep \/ Reload

Spec == Init /\ [][Next]_vars

\* Nothing is shown or kept that was not let through.
OnlyCleared == {shown, kept} \subseteq cleared \cup {Hidden}
=============================================================================
