--------------------------- MODULE BrowserCapsule ---------------------------
(* The capsule of a browser page and the page that performs its calls: the  *)
(* capsule numbers a call and remembers it as pending, the page performs it *)
(* when it likes and answers in any order, and a suspension forgets what is *)
(* pending and open. Storage and web sockets share one table of handles and *)
(* are one service here; fetch stands for the services without handles.     *)
EXTENDS Naturals, FiniteSets

CONSTANTS
  Handles,       \* numbers the page gives to what it opens
  MaxHandles,    \* limit of pending calls, and of handles
  NoHandle,      \* the handle of an operation that names none
  MaxCalls,      \* bound: calls the capsule makes
  MaxEpochs      \* bound: suspensions plus one

ASSUME BrowserAssumption ==
  /\ MaxHandles \in Nat /\ MaxCalls \in Nat /\ MaxEpochs \in Nat \ {0}
  /\ NoHandle \notin Handles

VARIABLES
  tab,    \* the capsule: card, running, next, pending, known
  page,   \* calls the page was given and has not answered to the capsule
  bOpen,  \* handles open in the page
  bLost,  \* history: open handles whose last trace the capsule dropped
  bEpoch  \* history: number of suspensions plus one

browserVars == <<tab, page, bOpen, bLost, bEpoch>>

BrowserServices == {"handles", "fetch"}
BrowserOps == {"open", "use", "close", "fetch"}

\* service of an operation
ServiceOf(op) == IF op = "fetch" THEN "fetch" ELSE "handles"

\* Known handles are kept with the epoch of the call that opened them, a
\* label the code does not have; 0 is unknown.
Known == {h \in Handles : tab.known[h] # 0}
NoneKnown == [h \in Handles |-> 0]

BrowserInit ==
  /\ tab = [card |-> {"fetch"}, running |-> TRUE, next |-> 1,
            pending |-> {}, known |-> NoneKnown]
  /\ page = {} /\ bOpen = {} /\ bLost = {} /\ bEpoch = 1

(* The page reports its interfaces again.                                   *)
NewCard(services) ==
  /\ tab' = [tab EXCEPT !.card = services]
  /\ UNCHANGED <<page, bOpen, bLost, bEpoch>>

(* created, active and hidden let the capsule run; suspended and stopped    *)
(* halt it and forget the pending calls and the handles. The call numbers   *)
(* go on.                                                                   *)
\* Fault: the calls are numbered from the start again.
HaltedAnew == [tab EXCEPT !.running = FALSE, !.pending = {}, !.known = NoneKnown, !.next = 1]
Halted == [tab EXCEPT !.running = FALSE, !.pending = {}, !.known = NoneKnown]
Halt ==
  /\ bEpoch < MaxEpochs
  /\ tab' = Halted
  /\ bEpoch' = bEpoch + 1
  /\ bLost' = bOpen
  /\ UNCHANGED <<page, bOpen>>
Wake ==
  /\ ~tab.running
  /\ tab' = [tab EXCEPT !.running = TRUE]
  /\ UNCHANGED <<page, bOpen, bLost, bEpoch>>

(* A host call; a refused one changes nothing.                              *)
HostCall(op, handle) ==
  /\ tab.running
  /\ ServiceOf(op) \in tab.card
  /\ Cardinality(tab.pending) < MaxHandles
  /\ op \in {"use", "close"} => handle \in Known
  /\ tab.next <= MaxCalls
  /\ LET call == [id |-> tab.next, op |-> op, handle |-> handle] IN
     /\ tab' = [tab EXCEPT !.next = @ + 1, !.pending = @ \union {call}]
     /\ page' = page \union {[call |-> call, epoch |-> bEpoch, answer |-> "none"]}
  /\ UNCHANGED <<bOpen, bLost, bEpoch>>

Answered(c, answer, handle) ==
  page' = (page \ {c}) \union {[c EXCEPT !.answer = answer, !.call.handle = handle]}

(* The page performs a call, or fails to. The page of the repository knows  *)
(* no storage and no web sockets: opening one and closing it are those of a *)
(* page that does, which opens under a number that is free, and may give a  *)
(* number that was closed again.                                            *)
PageOpens(c, h) ==
  /\ c.answer = "none" /\ c.call.op = "open" /\ h \notin bOpen
  /\ bOpen' = bOpen \union {h}
  /\ Answered(c, "ok", h)
  /\ UNCHANGED <<tab, bLost, bEpoch>>
PageCloses(c) ==
  /\ c.answer = "none" /\ c.call.op = "close" /\ c.call.handle \in bOpen
  /\ bOpen' = bOpen \ {c.call.handle}
  /\ bLost' = bLost \ {c.call.handle}
  /\ Answered(c, "ok", c.call.handle)
  /\ UNCHANGED <<tab, bEpoch>>
PageOther(c, answer) ==
  /\ c.answer = "none"
  /\ answer = "ok" => c.call.op \in {"use", "fetch"}
  /\ Answered(c, answer, c.call.handle)
  /\ UNCHANGED <<tab, bOpen, bLost, bEpoch>>

(* The answer arrives. Its number selects the pending call; the close of a  *)
(* handle forgets it only if it succeeded; an opened handle is recorded     *)
(* unless the table is full, which is refused after the pending call has    *)
(* been removed. An answer that is too long, whatever it answers, is refused *)
(* before that: the call stays pending, and a handle it opened or closed is *)
(* neither recorded nor forgotten. Overtaken is the handle of a close if it *)
(* was opened again by a call whose answer came before that of the close.   *)
\* Faults: a failed close forgets the handle; one handle too many.
AfterAny(pending, c) == IF pending.op = "close" THEN [tab.known EXCEPT ![pending.handle] = 0]
                                                 ELSE tab.known
Overfull(known) == Cardinality({h \in Handles : known[h] # 0}) > MaxHandles
Closes(pending, c) == c.answer = "ok" /\ pending.op = "close"
After(pending, c) == IF Closes(pending, c) THEN [tab.known EXCEPT ![pending.handle] = 0]
                                            ELSE tab.known
Opened(c) == c.answer = "ok" /\ c.call.op = "open"
TableFull(known) == Cardinality({h \in Handles : known[h] # 0}) >= MaxHandles
Recorded(known, pending, c) ==
  IF Opened(c) /\ ~TableFull(known) /\ ServiceOf(pending.op) = "handles"
    THEN [known EXCEPT ![c.call.handle] = c.epoch] ELSE known
Lose(handles) == bLost' = (bLost \union handles) \intersect bOpen
Overtaken(h) == {g \in {h} : \A d \in page : ~(Opened(d) /\ d.call.handle = h)}
HostComplete(c) ==
  /\ c.answer # "none"
  /\ page' = page \ {c}
  /\ \/ \E pending \in {p \in tab.pending : p.id = c.call.id} :
          LET known == After(pending, c) IN
          /\ tab' = [tab EXCEPT !.pending = @ \ {pending},
                                !.known = Recorded(known, pending, c)]
          /\ Lose((IF Opened(c) /\ TableFull(known) THEN {c.call.handle} ELSE {})
                  \union (IF Closes(pending, c) THEN Overtaken(pending.handle) ELSE {}))
     \/ /\ \A p \in tab.pending : p.id # c.call.id
        /\ tab' = tab
        /\ Lose(IF Opened(c) THEN {c.call.handle} ELSE {})
  /\ UNCHANGED <<bOpen, bEpoch>>
TooLong(c) ==
  /\ c.answer # "none"
  /\ page' = page \ {c}
  /\ Lose(IF Opened(c) THEN {c.call.handle} ELSE {})
  /\ UNCHANGED <<tab, bOpen, bEpoch>>

BrowserNext ==
  \/ \E services \in SUBSET BrowserServices : NewCard(services)
  \/ Halt
  \/ Wake
  \/ \E op \in BrowserOps, h \in Handles \union {NoHandle} :
       (op \in {"open", "fetch"} <=> h = NoHandle) /\ HostCall(op, h)
  \/ \E c \in page :
       \/ \E h \in Handles : PageOpens(c, h)
       \/ PageCloses(c)
       \/ \E answer \in {"ok", "failed"} : PageOther(c, answer)
       \/ HostComplete(c)
       \/ TooLong(c)

BrowserSpec == BrowserInit /\ [][BrowserNext]_browserVars

-----------------------------------------------------------------------------
BrowserTypeOK ==
  /\ tab.card \subseteq BrowserServices /\ tab.running \in BOOLEAN
  /\ tab.next \in 1..(MaxCalls + 1)
  /\ tab.known \in [Handles -> 0..MaxEpochs]
  /\ Cardinality(tab.pending) <= MaxHandles /\ Cardinality(Known) <= MaxHandles
  /\ \A p, q \in tab.pending : p.id = q.id => p = q
  /\ bOpen \subseteq Handles /\ bLost \subseteq bOpen /\ bEpoch \in 1..MaxEpochs

(* What the capsule holds was asked for since the last suspension: a handle *)
(* it knows was opened by a call of this epoch, however late the answers of *)
(* earlier calls arrive, and a pending call is one of this epoch's.         *)
BrowserForgets ==
  /\ \A h \in Known : tab.known[h] = bEpoch
  /\ \A p \in tab.pending, c \in page : p.id = c.call.id => c.epoch = bEpoch

(* A handle that is open in the page is known to the capsule, or the answer *)
(* of its opening is on the way, or it was lost in one of the four ways the *)
(* code has: a suspension between, a full table, an answer that is too      *)
(* long, or the close of its number's previous owner that was overtaken.    *)
OpenHandlesAreKnown ==
  \A h \in bOpen :
    \/ h \in Known \/ h \in bLost
    \/ \E c \in page : Opened(c) /\ c.call.handle = h
=============================================================================
