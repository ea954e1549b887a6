------------------------------ MODULE SymbolTable ------------------------------
(***************************************************************************)
(* SymbolTable (src/ir/symbol_table.cpp): a stack of scopes, the innermost   *)
(* one last.  A scope is a function from the names it defines to their       *)
(* entries.  Nothing is ever defined in a table without a scope.            *)
(***************************************************************************)
EXTENDS Integers, Sequences, FiniteSets, TLC

EmptyScope == <<>>

EnterScope(scopes) == Append(scopes, EmptyScope)

ExitScope(scopes) == SubSeq(scopes, 1, Len(scopes) - 1)

\* define_const and define_var throw on a name of the innermost scope.
IsDefinedHere(scopes, name) == name \in DOMAIN scopes[Len(scopes)]

Define(scopes, name, entry) ==
  [scopes EXCEPT ![Len(scopes)] = (name :> entry) @@ @]

\* A wrong variant: the outermost scope wins.
ScopeOutermost(scopes, name) ==
  CHOOSE k \in DOMAIN scopes :
    name \in DOMAIN scopes[k] /\ \A l \in 1 .. (k - 1) : name \notin DOMAIN scopes[l]

\* The innermost scope that defines the name.
ScopeOf(scopes, name) ==
  CHOOSE k \in DOMAIN scopes :
    name \in DOMAIN scopes[k] /\ \A l \in (k + 1) .. Len(scopes) : name \notin DOMAIN scopes[l]

IsVisible(scopes, name) == \E k \in DOMAIN scopes : name \in DOMAIN scopes[k]

LookupValue(scopes, name) == scopes[ScopeOf(scopes, name)][name]
=============================================================================
