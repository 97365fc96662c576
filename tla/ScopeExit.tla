------------------------------ MODULE ScopeExit ------------------------------
(***************************************************************************)
(* notstd::scope_exit: an object that calls its lambda when it is          *)
(* destroyed, and that can be moved, released and reset before.  A lambda  *)
(* may itself use the object that calls it.                                *)
(***************************************************************************)
EXTENDS Integers, FiniteSets

CONSTANTS
    Objects,     \* the lambda_call objects
    Lambdas,
    NoLambda

ASSUME ScopeAssumption == NoLambda \notin Lambdas

VARIABLES
    m_lambda,    \* the lambda of each object, NoLambda if there is no object
    m_call,
    executing,   \* the objects whose lambda is executing
    dying,       \* those of them that call it in their destructor
    called,      \* history: how often each lambda was called
    released     \* history: the lambdas that were released

scopeVars == <<m_lambda, m_call, executing, dying, called, released>>

Exists(o) == m_lambda[o] # NoLambda

ScopeInit ==
    /\ m_lambda = [o \in Objects |-> NoLambda]
    /\ m_call = [o \in Objects |-> FALSE]
    /\ executing = {} /\ dying = {}
    /\ called = [l \in Lambdas |-> 0]
    /\ released = {}

Unused(l) == called[l] = 0 /\ l \notin released /\ \A o \in Objects : m_lambda[o] # l

scope_exit(o, l) ==
    /\ ~Exists(o) /\ Unused(l)
    /\ m_lambda' = [m_lambda EXCEPT ![o] = l]
    /\ m_call' = [m_call EXCEPT ![o] = TRUE]
    /\ UNCHANGED <<executing, dying, called, released>>

\* Mutant: the object moved from is not told.
BugMoveConstruct(o, other) ==
    /\ ~Exists(o) /\ Exists(other)
    /\ m_lambda' = [m_lambda EXCEPT ![o] = m_lambda[other]]
    /\ m_call' = [m_call EXCEPT ![o] = m_call[other]]
    /\ UNCHANGED <<executing, dying, called, released>>

MoveConstruct(o, other) ==
    /\ ~Exists(o) /\ Exists(other)
    /\ m_lambda' = [m_lambda EXCEPT ![o] = m_lambda[other]]
    /\ m_call' = [m_call EXCEPT ![o] = m_call[other], ![other] = FALSE]
    /\ UNCHANGED <<executing, dying, called, released>>

release(o) ==
    /\ Exists(o)
    /\ m_call' = [m_call EXCEPT ![o] = FALSE]
    /\ released' = released \cup {l \in Lambdas : m_call[o] /\ l = m_lambda[o]}
    /\ UNCHANGED <<m_lambda, executing, dying, called>>

\* m_call is cleared before the lambda is called: a reset from within does
\* nothing.
CallLambda(o) ==
    /\ m_call' = [m_call EXCEPT ![o] = FALSE]
    /\ executing' = executing \cup {o}
    /\ called' = [called EXCEPT ![m_lambda[o]] = @ + 1]

reset(o) ==
    /\ Exists(o)
    /\ IF m_call[o] THEN CallLambda(o) ELSE UNCHANGED <<m_call, executing, called>>
    /\ UNCHANGED <<m_lambda, dying, released>>

\* The destructor resets: the object is there until the lambda has returned.
Destroy(o) ==
    /\ Exists(o) /\ o \notin executing
    /\ IF m_call[o]
       THEN CallLambda(o) /\ dying' = dying \cup {o} /\ UNCHANGED m_lambda
       ELSE /\ m_lambda' = [m_lambda EXCEPT ![o] = NoLambda]
            /\ UNCHANGED <<m_call, executing, dying, called>>
    /\ UNCHANGED released

LambdaReturns(o) ==
    /\ o \in executing
    /\ executing' = executing \ {o}
    /\ dying' = dying \ {o}
    /\ m_lambda' = IF o \in dying THEN [m_lambda EXCEPT ![o] = NoLambda] ELSE m_lambda
    /\ UNCHANGED <<m_call, called, released>>

ScopeNext ==
    \E o \in Objects :
        \/ \E l \in Lambdas : scope_exit(o, l)
        \/ \E other \in Objects : MoveConstruct(o, other)
        \/ release(o) \/ reset(o) \/ LambdaReturns(o) \/ Destroy(o)

ScopeSpec == ScopeInit /\ [][ScopeNext]_scopeVars

-----------------------------------------------------------------------------
Holders(l) == {o \in Objects : m_lambda[o] = l /\ m_call[o]}

\* Every lambda is accounted for exactly once, however its object is moved,
\* released and reset, from within the lambda too: one object is going to
\* call it, or it was called once, or it was released and is never called.
CalledExactlyOnce ==
    \A l \in Lambdas :
        \/ Unused(l)
        \/ Cardinality(Holders(l)) + called[l] + (IF l \in released THEN 1 ELSE 0) = 1
=============================================================================
