--------------------------- MODULE MCEditorAdapter ---------------------------
(***************************************************************************)
(* EditorAdapter for TLC: a token calls a vault twice, in one loop; the    *)
(* editor has a file of each.                                              *)
(***************************************************************************)
EXTENDS EditorAdapter

S(pc, place, code, depth, enters, calls) ==
  [pc |-> pc, place |-> place, code |-> code, depth |-> depth, enters |-> enters,
   calls |-> calls]
Token(line) == <<"token", line>>
Vault(line) == <<"vault", line>>

SomeProgram ==
  <<S(0, Token(1), "token", 0, "send", ""), S(1, Token(2), "token", 0, "", "give"),
    S(0, Vault(1), "vault", 1, "give", ""), S(1, Vault(2), "vault", 1, "", ""),
    S(2, Token(2), "token", 0, "", "")>>

Ask(f, lines, functions) == [file |-> f, lines |-> lines, functions |-> functions]
SomePlans ==
  {Ask("token", <<1>>, <<>>), Ask("token", <<2>>, <<"give">>), Ask("vault", <<1, 2>>, <<"take">>),
   Ask("token", <<>>, <<>>)}
SomeLaunches ==
  {[autoStart |-> TRUE, stopOnEntry |-> FALSE, bundle |-> {"token"}, autoLoad |-> TRUE, steps |-> 0,
    call |-> FALSE],
   [autoStart |-> FALSE, stopOnEntry |-> FALSE, bundle |-> {}, autoLoad |-> TRUE, steps |-> 2,
    call |-> FALSE],
   [autoStart |-> FALSE, stopOnEntry |-> FALSE, bundle |-> {"vault"}, autoLoad |-> TRUE, steps |-> 0,
    call |-> TRUE]}
=============================================================================
