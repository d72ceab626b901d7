--------------------------- MODULE SerialExecutor ---------------------------
(***************************************************************************)
(* What EventLoop promises to the callers of queueInLoop(): a functor that *)
(* is handed over is executed at most once, one functor at a time, in the  *)
(* order in which the functors were handed over.  Nothing is said about    *)
(* threads, locks, polling or batches.                                     *)
(***************************************************************************)
EXTENDS Sequences

CONSTANTS Functors,   \* identities of the calls to queueInLoop
          NoFunctor   \* "no functor is being executed"

VARIABLES submitted,  \* functors ever handed over
          todo,       \* handed over and not yet started, oldest first
          doing       \* the functor being executed

vars == <<submitted, todo, doing>>

Init ==
    /\ submitted = {}
    /\ todo = <<>>
    /\ doing = NoFunctor

Submit(f) ==
    /\ f \notin submitted
    /\ submitted' = submitted \union {f}
    /\ todo' = Append(todo, f)
    /\ UNCHANGED doing

Start ==
    /\ doing = NoFunctor
    /\ todo # <<>>
    /\ doing' = Head(todo)
    /\ todo' = Tail(todo)
    /\ UNCHANGED submitted

Finish ==
    /\ doing # NoFunctor
    /\ doing' = NoFunctor
    /\ UNCHANGED <<submitted, todo>>

Next == (\E f \in Functors : Submit(f)) \/ Start \/ Finish

Spec == Init /\ [][Next]_vars

=============================================================================
