--------------------------- MODULE MCSourceBundles ---------------------------
(***************************************************************************)
(* SourceBundles for TLC: a token behind a proxy and its two clones, and a *)
(* vault; token and vault have code of a file they share.                  *)
(***************************************************************************)
EXTENDS SourceBundles

At(pc, f, start, length) == [pc |-> pc, file |-> f, start |-> start, length |-> length]
Artifact(code, immutables, rank, files, instructions) ==
  [code |-> code, immutables |-> immutables, rank |-> rank, files |-> files,
   instructions |-> instructions, slots |-> [owner |-> rank]]

\* Each line is ten bytes.  Pc 0 of a contract maps to all of it; a function
\* spans two lines; line 3 of the token has no code of its own.
SomeLines == [token |-> <<0, 10, 20, 30, 40>>, vault |-> <<0, 10, 20, 30>>,
              base |-> <<0, 10, 20>>]
SomeArtifacts ==
  [Token |-> Artifact(<<1, 0, 2>>, {2}, 1, {"token", "base", "vault"},
     <<At(0, "token", 0, 40), At(1, "token", 10, 20), At(2, "token", 12, 5),
       At(3, "token", 12, 5), At(4, "token", 15, 2), At(5, "token", 30, 4),
       At(6, "base", 10, 4)>>),
   Vault |-> Artifact(<<1, 3, 3>>, {}, 2, {"vault", "base"},
     <<At(0, "vault", 0, 30), At(2, "vault", 22, 5), At(4, "vault", 10, 4),
       At(5, "base", 10, 4)>>),
   Proxy |-> Artifact(<<9>>, {}, 3, {"proxy"}, <<At(0, "proxy", 0, 10)>>)]

Load(kind, contract, address, codeAddress) ==
  [kind |-> kind, contract |-> contract, address |-> address, codeAddress |-> codeAddress]
Ask(kind, f, line, column, address, selector, name) ==
  [id |-> <<kind, f, line, name>>, kind |-> kind, file |-> f, line |-> line, column |-> column,
   address |-> address, selector |-> selector, name |-> name, slot |-> 7]

AutoLoad == Load("auto", NoContract, "none", "none")
ProxyLoads ==
  {AutoLoad, Load("explorer", "Proxy", "proxy", "none"),
   Load("standard-json", "Token", "proxy", "clone1")}
OwnLine == Ask("source", "token", 2, 6, "clone1", 0, "")
SharedLine == Ask("source", "base", 2, 1, "none", 0, "")

\* The root is a vault; the clones of the token differ in an immutable.  One
\* breakpoint at a time.
Deployed(project, verified, mapping, requests) ==
  [root |-> "root",
   code |-> [root |-> <<1, 3, 3>>, clone1 |-> <<1, 7, 2>>, clone2 |-> <<1, 7, 2>>,
             proxy |-> <<9>>],
   implementation |-> [root |-> "none", clone1 |-> "none", clone2 |-> "none",
                       proxy |-> "clone1"],
   project |-> project, verified |-> verified, mapping |-> mapping,
   requests |-> requests]
ClonesLine == ProxyLoads \cup {OwnLine}
BehindProxies ==
  {Deployed({"Token", "Vault"}, <<>>, <<>>, ClonesLine),
   Deployed({"Token", "Vault"}, <<>>, <<>>, {AutoLoad, SharedLine}),
   Deployed({"Vault"}, [clone1 |-> "Token", proxy |-> "Proxy"], <<>>, ClonesLine),
   Deployed({"Token"}, [root |-> "Vault"],
            [proxy |-> [contract |-> "Token", pull |-> FALSE],
             clone2 |-> [contract |-> "none", pull |-> TRUE]], ClonesLine)}

\* A vault that calls a token: two breakpoints at a time.
TwoLoads ==
  {Load("local-project", "Vault", "none", "none"), Load("manual", "Token", "clone1", "clone1")}
NextLine == Ask("source", "token", 3, 1, "none", 0, "")
SourcesAndFunctions == {NextLine, SharedLine, Ask("function", "", 0, 0, "none", 1, "")}
OtherKinds ==
  {NextLine, Ask("storage", "", 0, 0, "none", 0, "owner"),
   Ask("memory", "token", 2, 1, "none", 0, "")}
TwoContracts ==
  {[root |-> "root",
    code |-> [root |-> <<1, 3, 3>>, clone1 |-> <<1, 7, 2>>, clone2 |-> NoCode, proxy |-> NoCode],
    implementation |-> [a \in Addresses |-> "none"],
    project |-> {"Token", "Vault"}, verified |-> <<>>, mapping |-> <<>>,
    requests |-> TwoLoads \cup kinds] : kinds \in {SourcesAndFunctions, OtherKinds}}

SomeWorlds == BehindProxies \cup TwoContracts
SomeLoads == ProxyLoads \cup TwoLoads
SomeBreakpoints == {OwnLine} \cup SourcesAndFunctions \cup OtherKinds
SomeAutoMatch == {[project |-> TRUE, explorer |-> TRUE]}
=============================================================================
