-------------------------------- MODULE Feed --------------------------------
(***************************************************************************)
(* What a downstream client is promised, said without channels, tasks,     *)
(* cursors or sockets: from the moment it joins a log it is given, in      *)
(* order, the entries it is interested in.  An exact client misses none of *)
(* them and gets each one once; a client that also transforms what it gets *)
(* (?type, ?dedupByContent, ?jaq) may be given none or several messages    *)
(* for an entry, never one out of order.  A client that cannot be served   *)
(* like that is not served at all: nothing follows a gap.                  *)
(***************************************************************************)
EXTENDS Integers, Sequences

CONSTANTS
  Clients,
  Exact,      \* the clients that are given every entry of interest once
  Channels,
  Entries,    \* what is published: records with a field `source'
  Interest,   \* [Clients -> sets of sources]
  NoChannel

VARIABLES
  log,    \* all that was ever published, per channel
  chan,   \* the channel each client asked for
  first,  \* the position at which it joined, 0 before it does
  got     \* the positions it was given, in the order it was given them

vars == <<log, chan, first, got>>

Wanted(c, p) == log[chan[c]][p].source \in Interest[c]

Last(c) == IF got[c] = <<>> THEN first[c] - 1 ELSE got[c][Len(got[c])]

Init ==
  /\ log   = [ch \in Channels |-> <<>>]
  /\ chan  = [c \in Clients |-> NoChannel]
  /\ first = [c \in Clients |-> 0]
  /\ got   = [c \in Clients |-> <<>>]

Publish(ch, entry) ==
  /\ log' = [log EXCEPT ![ch] = Append(@, entry)]
  /\ UNCHANGED <<chan, first, got>>

Ask(c, ch) ==
  /\ chan[c] = NoChannel
  /\ chan' = [chan EXCEPT ![c] = ch]
  /\ UNCHANGED <<log, first, got>>

Join(c) ==
  /\ chan[c] # NoChannel
  /\ first[c] = 0
  /\ first' = [first EXCEPT ![c] = Len(log[chan[c]]) + 1]
  /\ UNCHANGED <<log, chan, got>>

(* The next message for c is made of entry p. *)
InTurn(c, p) ==
  \/ /\ c \in Exact
     /\ p > Last(c)
     /\ \A q \in (Last(c) + 1)..(p - 1) : ~Wanted(c, q)
  \/ /\ c \notin Exact
     /\ p >= Last(c)

Deliver(c) ==
  /\ first[c] > 0
  /\ \E p \in first[c]..Len(log[chan[c]]) :
       /\ Wanted(c, p)
       /\ InTurn(c, p)
       /\ got' = [got EXCEPT ![c] = Append(@, p)]
  /\ UNCHANGED <<log, chan, first>>

Next ==
  \/ \E ch \in Channels, entry \in Entries : Publish(ch, entry)
  \/ \E c \in Clients :
       \/ \E ch \in Channels : Ask(c, ch)
       \/ Join(c)
       \/ Deliver(c)

Spec == Init /\ [][Next]_vars
=============================================================================
