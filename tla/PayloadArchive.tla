--------------------------- MODULE PayloadArchive ---------------------------
(***************************************************************************)
(* What an archive collector promises about raw payloads, whatever files   *)
(* it keeps and whenever it is interrupted:                                *)
(*                                                                         *)
(*   - a payload that was stored stays stored;                             *)
(*   - latest names, for each source, the payload later answers are        *)
(*     compared with.  It is changed in one step for all sources, only to  *)
(*     payloads that are already stored, and never back to nothing.        *)
(*                                                                         *)
(* Dropping an answer that equals latest is therefore safe: its payload is *)
(* in the archive.                                                         *)
(***************************************************************************)
CONSTANTS Source, Content, None

VARIABLES
    stored,   \* the payloads in the archive, as pairs source, content
    latest    \* the content later answers of a source are compared with

vars == <<stored, latest>>

Init == stored = {} /\ latest = [s \in Source |-> None]

\* Payloads are added; nothing is taken away.
Store ==
    /\ stored \subseteq stored' /\ stored' \subseteq Source \X Content
    /\ UNCHANGED latest

\* A run publishes what it saw.
Publish ==
    /\ latest' \in [Source -> Content \cup {None}]
    /\ \A s \in Source : latest'[s] = latest[s] \/ <<s, latest'[s]>> \in stored
    /\ UNCHANGED stored

Next == Store \/ Publish

Spec == Init /\ [][Next]_vars
=============================================================================
