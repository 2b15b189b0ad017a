----------------------------- MODULE MediaPorts -----------------------------
(* The MIDI port and the audio capsule of Ubuntu. A connection takes a copy *)
(* of the events that were bound to its device, and keeps its place in it   *)
(* across losses, closes and reconnections. Streams and plugins end once.   *)
(* Hotplug events are recorded by one thread and polled by others.          *)
EXTENDS Naturals, Sequences, SequencesExt

CONSTANTS
  MidiConnections,     \* connections opened on the device
  MidiScripts,         \* events a device may be bound with
  QueueCapacity,       \* policy: events a connection takes
  ReconnectAttempts,   \* policy: reconnections of a connection
  MaxPlugs             \* bound: hotplug events, and bindings

ASSUME MediaAssumption ==
  /\ \A events \in MidiScripts : events \in Seq(ToSet(events))
  /\ QueueCapacity \in Nat /\ ReconnectAttempts \in Nat /\ MaxPlugs \in Nat

VARIABLES
  device,    \* the events bound to the device last, and how often it was bound
  midi,      \* the connections
  stream,    \* an audio stream or a plugin
  hotplug,   \* events waiting to be polled
  pDone      \* history: what was recorded, and what the polls were given

mediaVars == <<device, midi, stream, hotplug, pDone>>

NotOpen == [open |-> FALSE]

MediaInit ==
  /\ device = [events |-> <<>>, binds |-> 0]
  /\ midi = [c \in MidiConnections |-> NotOpen]
  /\ stream = "none" /\ hotplug = <<>>
  /\ pDone = [recorded |-> <<>>, polled |-> <<>>]

Elsewhere == UNCHANGED <<stream, hotplug, pDone>>

\* Binding again replaces the events for the connections to come.
BindMidi(events) ==
  /\ device.binds < MaxPlugs
  /\ device' = [events |-> events, binds |-> device.binds + 1]
  /\ UNCHANGED midi /\ Elsewhere
OpenMidi(c) ==
  /\ device.binds > 0 /\ midi[c] = NotOpen
  /\ Len(device.events) <= QueueCapacity
  /\ midi' = [midi EXCEPT ![c] =
       [open |-> TRUE, input |-> device.events, connected |-> TRUE, closed |-> FALSE,
        reconnects |-> 0, of |-> device.events, got |-> <<>>, losses |-> 0]]
  /\ UNCHANGED device /\ Elsewhere

Sets(c, connection) ==
  /\ midi[c].open /\ midi' = [midi EXCEPT ![c] = connection]
  /\ UNCHANGED device /\ Elsewhere
CanReceive(c) == midi[c].open /\ ~midi[c].closed /\ midi[c].connected

\* The device is lost where its script says so; of and got are history.
Receive(c) ==
  /\ CanReceive(c) /\ midi[c].input # <<>>
  /\ IF Head(midi[c].input) = "lost"
       THEN Sets(c, [midi[c] EXCEPT !.input = Tail(@), !.connected = FALSE, !.losses = @ + 1])
       ELSE Sets(c, [midi[c] EXCEPT !.input = Tail(@),
                                    !.got = Append(@, Head(midi[c].input))])

\* A closed connection may be reconnected too.
\* Fault: the events begin again.
Rewound(connection) ==
  [connection EXCEPT !.reconnects = @ + 1, !.connected = TRUE, !.closed = FALSE,
                     !.input = connection.of]
Reconnected(connection) ==
  [connection EXCEPT !.reconnects = @ + 1, !.connected = TRUE, !.closed = FALSE]
ReconnectMidi(c) ==
  /\ midi[c].open /\ midi[c].reconnects < ReconnectAttempts
  /\ Sets(c, Reconnected(midi[c]))
CloseMidi(c) ==
  /\ midi[c].open /\ ~midi[c].closed
  /\ Sets(c, [midi[c] EXCEPT !.closed = TRUE, !.connected = FALSE])

OpenStream == stream = "none" /\ stream' = "open" /\ UNCHANGED <<device, midi, hotplug, pDone>>
\* cancel, close and unload: the first one ends it, all later ones are refused.
EndStream == stream = "open" /\ stream' = "closed" /\ UNCHANGED <<device, midi, hotplug, pDone>>

RecordHotplug ==
  /\ Len(pDone.recorded) < MaxPlugs
  /\ LET event == Len(pDone.recorded) + 1 IN
     /\ hotplug' = Append(hotplug, event)
     /\ pDone' = [pDone EXCEPT !.recorded = Append(@, event)]
  /\ UNCHANGED <<device, midi, stream>>
\* Fault: only the first event is taken of those that are given.
FirstGiven == hotplug # <<>> /\ pDone' = [pDone EXCEPT !.polled = Append(@, Head(hotplug))]
Given == pDone' = [pDone EXCEPT !.polled = @ \o hotplug]
PollHotplug ==
  /\ Given /\ hotplug' = <<>>
  /\ UNCHANGED <<device, midi, stream>>

MediaNext ==
  \/ \E events \in MidiScripts : BindMidi(events)
  \/ \E c \in MidiConnections :
       OpenMidi(c) \/ Receive(c) \/ ReconnectMidi(c) \/ CloseMidi(c)
  \/ OpenStream \/ EndStream \/ RecordHotplug \/ PollHotplug

MediaSpec == MediaInit /\ [][MediaNext]_mediaVars

-----------------------------------------------------------------------------
MediaTypeOK ==
  /\ stream \in {"none", "open", "closed"} /\ device.binds \in 0..MaxPlugs
  /\ \A c \in MidiConnections :
       midi[c].open => /\ Len(midi[c].of) <= QueueCapacity
                       /\ midi[c].reconnects \in 0..ReconnectAttempts

(* Of what the device sent, a connection consumed a part from the front, and *)
(* was given the messages in it: each one, once, and in order.              *)
InOrder(of, consumed, got) ==
  \E at \in [DOMAIN got -> 1..consumed] :
    /\ \A i, j \in DOMAIN got : i < j => at[i] < at[j]
    /\ \A i \in DOMAIN got : got[i] = of[at[i]]
    /\ {at[i] : i \in DOMAIN got} = {k \in 1..consumed : of[k] # "lost"}
Delivered(of, input, got) ==
  LET consumed == Len(of) - Len(input) IN
  /\ consumed \in Nat /\ input = SubSeq(of, consumed + 1, Len(of))
  /\ InOrder(of, consumed, got)

(* Each message reaches each connection at most once and in order, across   *)
(* any losses, closes and reconnections; each loss costs the connection a   *)
(* reconnection before anything else is received. Each hotplug event is     *)
(* given to exactly one poll, in order.                                     *)
MediaDeliverOnce ==
  /\ \A c \in MidiConnections :
       midi[c].open =>
         /\ Delivered(midi[c].of, midi[c].input, midi[c].got)
         /\ midi[c].losses <= midi[c].reconnects + 1
         /\ CanReceive(c) => midi[c].losses <= midi[c].reconnects
  /\ pDone.polled \o hotplug = pDone.recorded
=============================================================================
