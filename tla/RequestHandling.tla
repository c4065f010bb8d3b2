---------------------------- MODULE RequestHandling ----------------------------
(***************************************************************************)
(* What the modules about staff have in common: the server works on        *)
(* several requests at a time, and each waits for the database between its *)
(* steps.  In a calm history a request is answered before the next begins  *)
(* and none is broken off; that is what the code's tests exercise.         *)
(***************************************************************************)
EXTENDS Naturals, FiniteSets

CONSTANT Handler  \* requests the server works on at one time (a bound)

ASSUME HandlerAssumption == IsFiniteSet(Handler) /\ "none" \notin Handler

VARIABLE calm     \* is this history a calm one?

CalmInit == calm \in BOOLEAN

\* May a request begin, given what each handler is at?
MayTake(h, at) == at[h] = "idle" /\ (calm => \A g \in Handler : at[g] = "idle")

\* May a request be broken off, by an error or because the process stops?
MayBreak(h, at) == ~calm /\ at[h] # "idle"

=============================================================================
