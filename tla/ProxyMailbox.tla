----------------------------- MODULE ProxyMailbox -----------------------------
(***************************************************************************)
(* What a companion proxy promises to the consumer of its inputs: a        *)
(* mailbox opened for one session.  While it is open, a message of that    *)
(* session may be put in, whole and at most once; the consumer takes       *)
(* messages out in the order they came in.  Closing or reopening the       *)
(* mailbox empties it.                                                     *)
(***************************************************************************)
EXTENDS Naturals, Sequences

CONSTANTS
  Messages,
  SessionOf(_), \* the session a message belongs to
  WholeOf(_),   \* the content of a whole message
  NoSession,
  Capacity

VARIABLES
  line,      \* the session the mailbox is open for, or NoSession
  accepted,  \* messages put in since it was opened
  box        \* contents waiting for the consumer

vars == <<line, accepted, box>>

Init == line = NoSession /\ accepted = {} /\ box = <<>>

\* Opened for a session, or closed.
Switch(s) ==
  /\ line' = s /\ accepted' = {} /\ box' = <<>>

Accept(m) ==
  /\ line = SessionOf(m) /\ m \notin accepted
  /\ Len(box) < Capacity
  /\ box' = Append(box, WholeOf(m))
  /\ accepted' = accepted \cup {m}
  /\ UNCHANGED line

Take ==
  /\ box # <<>>
  /\ box' = Tail(box)
  /\ UNCHANGED <<line, accepted>>

Next ==
  \/ \E m \in Messages : Switch(SessionOf(m)) \/ Accept(m)
  \/ Switch(NoSession)
  \/ Take

Spec == Init /\ [][Next]_vars
=============================================================================
