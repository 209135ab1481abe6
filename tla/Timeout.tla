------------------------------ MODULE Timeout ------------------------------
(***************************************************************************)
(* How long a command may run: resolveTimeout of handler.go turns the      *)
(* optional timeout_sec of a command into a time.Duration, and runner.Run  *)
(* replaces a duration that is not positive.  Both work on Go's signed     *)
(* integers of Width bits (64 in the code), in units of which there are    *)
(* Second in a second (10^9 there), so that the product of the two can     *)
(* wrap around.                                                            *)
(***************************************************************************)
EXTENDS Integers

CONSTANTS
    Width,          \* bits of int and of time.Duration
    Second,         \* time.Second
    SpecTimeouts,   \* timeouts of the action specs
    DefaultTimeout, \* the runner's last resort, 30 s in the code
    Nil             \* no timeout_sec, no duration, no process

Word == -(2 ^ (Width - 1)) .. 2 ^ (Width - 1) - 1

ASSUME WidthPositive ==
    /\ Width \in Nat \ {0}
    /\ 2 ^ (Width - 1) \in Nat \ {0} /\ 2 ^ Width \in Nat \ {0}
ASSUME DurationsAreWords ==
    /\ Second \in Word /\ DefaultTimeout \in Word /\ DefaultTimeout > 0
    /\ SpecTimeouts \subseteq {t \in Word : t > 0}
ASSUME NilIsNoWord == Nil \notin Int

VARIABLES
    spec,       \* the timeout of the action's spec
    asked,      \* timeout_sec of the command, Nil if it has none
    granted,    \* what resolveTimeout returned, Nil for an error
    effective   \* the timeout of the process, Nil if none was started

timeoutVars == <<spec, asked, granted, effective>>

\* The product of two words, as Go computes it.
Wrap(n) == ((n + 2 ^ (Width - 1)) % (2 ^ Width)) - 2 ^ (Width - 1)

resolveTimeout(limit, sec) ==
    IF sec = Nil THEN limit
    ELSE IF sec > 0 /\ Wrap(sec * Second) <= limit THEN Wrap(sec * Second)
    ELSE Nil

\* Mutant: the runner takes the timeout as it is.
rawTimeout(timeout, limit) == timeout

\* The head of runner.Run.
runTimeout(timeout, limit) ==
    IF timeout > 0 THEN timeout ELSE IF limit > 0 THEN limit ELSE DefaultTimeout

\* Handle of one command: resolveTimeout, then the runner.
Handle(limit, sec) ==
    /\ spec' = limit
    /\ asked' = sec
    /\ granted' = resolveTimeout(limit, sec)
    /\ effective' = IF granted' = Nil THEN Nil
                    ELSE runTimeout(granted', limit)

TimeoutInit ==
    /\ spec \in SpecTimeouts
    /\ asked = Nil
    /\ granted = Nil
    /\ effective = Nil

-----------------------------------------------------------------------------
\* No timeout_sec, wrapped around or not, lets a process run without a
\* deadline or beyond the limit of its action: a product that wrapped to a
\* negative duration passes resolveTimeout and is put right by the runner.
DeadlineWithinLimit == effective # Nil => effective > 0 /\ effective <= spec
=============================================================================
