----------------------------- MODULE AtomicCalls -----------------------------
(***************************************************************************)
(* What the engine promises of nested message calls: each call is a        *)
(* transaction inside its caller's.  The world the call started from is    *)
(* put aside; a call reported as failed leaves exactly that world behind,  *)
(* a call reported as successful leaves its own.  There are no snapshot    *)
(* stacks, revision numbers or gas here.                                   *)
(*                                                                         *)
(* Two kinds of call are exempt, and the code has both: an outermost call  *)
(* that put nothing aside keeps its writes however it ends, and so does a  *)
(* creation whose returned code is refused.                                *)
(***************************************************************************)
EXTENDS Integers, Sequences

CONSTANTS World,   \* the values of all accounts and all storage
          Nothing  \* in place of a world that was not put aside

VARIABLES world,   \* the world as the running call sees it
          saved,   \* per active call, outermost first: the world put aside
          result   \* how the last call to end was reported

vars == <<world, saved, result>>

Init == world \in World /\ saved = <<>> /\ result = "none"

Active == Len(saved) > 0
Last == saved[Len(saved)]
Front == SubSeq(saved, 1, Len(saved) - 1)

\* A call starts.  A creation puts aside the world its creator left by
\* spending a nonce, any other call the world as it is.
Enter ==
  /\ Len(saved') = Len(saved) + 1
  /\ SubSeq(saved', 1, Len(saved)) = saved
  /\ LET aside == saved'[Len(saved')]
     IN aside.world \in World /\ (aside.creates \/ aside.world = world)
  /\ world' \in World
  /\ UNCHANGED result

EnterUnsaved ==
  /\ ~Active
  /\ saved' = <<[world |-> Nothing, creates |-> FALSE]>>
  /\ UNCHANGED <<world, result>>

Work == Active /\ world' \in World /\ UNCHANGED <<saved, result>>

Commit ==
  /\ Active
  /\ world' \in World
  /\ Last.creates \/ world' = world
  /\ saved' = Front
  /\ result' = "success"

Rollback ==
  /\ Active
  /\ world' = IF Last.world = Nothing THEN world ELSE Last.world
  /\ saved' = Front
  /\ result' = "failure"

RefuseCode ==
  /\ Active
  /\ Last.creates
  /\ world' \in World
  /\ saved' = Front
  /\ result' = "failure"

\* A call that is refused before it starts.
Refuse == ~Active /\ result' = "failure" /\ UNCHANGED <<world, saved>>

\* After the outermost call: fees.
Settle == ~Active /\ world' \in World /\ UNCHANGED <<saved, result>>

Next ==
  \/ Enter
  \/ EnterUnsaved \/ Work \/ Commit \/ Rollback \/ RefuseCode \/ Refuse \/ Settle

Spec == Init /\ [][Next]_vars
=============================================================================
