---------------------------- MODULE MCDispatcher ----------------------------
(* A small instance of Dispatcher: a document the owner's authorization      *)
(* covers, product code it does not, the dispatcher's own code.              *)
EXTENDS Dispatcher, TLC

CONSTANTS t1, t2, doc, code, guard

OneGrant == {[id |-> "docs", scope |-> {doc, guard}, max |-> 1]}
DeclaredScopes == {{doc}, {doc, guard}}
ExecutorEdits == {{}, {doc}, {guard}}
MovedGuard == {[from |-> guard, to |-> doc]}
StrayFiles == {{code}}
Same == Permutations(Tasks)
=============================================================================
