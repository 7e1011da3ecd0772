----------------------------- MODULE BlockCalls -----------------------------
(***************************************************************************)
(* What the fork engine promises a call at a numbered block: it runs on    *)
(* the state the chain had after that block, alone.  Writes are its own,   *)
(* a frame that fails takes back what was written since it was entered,    *)
(* and nothing is left when the call ends.  There is no cache, no upstream *)
(* node and no loading here.                                               *)
(***************************************************************************)
EXTENDS Integers, Sequences

CONSTANTS
  Clients,
  Accounts,
  Chain,      \* the state after each block: a tuple of values for each thing
  CodePart,   \* which value of an account is its code
  Values

VARIABLE view  \* the call of each client: [phase, header, code, origin, now, saved]

NoCall == [phase |-> "none"]

Init == view = [c \in Clients |-> NoCall]

Runs(c) == view[c].phase = "running"
Becomes(c, v) == view' = [view EXCEPT ![c] = v]

Starts(c) ==
  /\ ~Runs(c)
  /\ \E n \in 1 .. Len(Chain), a \in Accounts :
       Becomes(c, [phase |-> "running", header |-> n, code |-> Chain[n][a][CodePart],
                   origin |-> Chain[n], now |-> Chain[n], saved |-> <<>>])

Writes(c) ==
  /\ Runs(c)
  /\ \E x \in DOMAIN view[c].now : \E i \in DOMAIN view[c].now[x], v \in Values :
       Becomes(c, [view[c] EXCEPT !.now[x][i] = v])

Enters(c) ==
  /\ Runs(c)
  /\ Becomes(c, [view[c] EXCEPT !.saved = Append(@, view[c].now)])

Dropped(saved) == SubSeq(saved, 1, Len(saved) - 1)

Returns(c) ==
  /\ Runs(c) /\ view[c].saved # <<>>
  /\ Becomes(c, [view[c] EXCEPT !.saved = Dropped(@)])

Fails(c) ==
  /\ Runs(c) /\ view[c].saved # <<>>
  /\ Becomes(c, [view[c] EXCEPT !.now = view[c].saved[Len(view[c].saved)],
                                !.saved = Dropped(@)])

Ends(c) == Runs(c) /\ Becomes(c, NoCall)

Next == \E c \in Clients :
  Starts(c) \/ Writes(c) \/ Enters(c) \/ Returns(c) \/ Fails(c) \/ Ends(c)

Spec == Init /\ [][Next]_view
=============================================================================
