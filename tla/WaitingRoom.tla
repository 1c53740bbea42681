----------------------------- MODULE WaitingRoom -----------------------------
(***************************************************************************)
(* The program of main.c over the queue of heap.c: a line with a patient     *)
(* adds one, a "." serves one and ends an iteration, and after the last      *)
(* iteration those who still wait are served.  One action per line, in which *)
(* the calls of the queue start; their loops are Heap's steps.               *)
(* `structs` and `names` count the two blocks of a patient, `queue` the      *)
(* blocks of the queue itself.  Abstracted: the text of the lines, the       *)
(* "duration" that may follow an age, and a line of spaces without a name.   *)
(***************************************************************************)
EXTENDS Heap

CONSTANTS
    NAMES,         \* the names, as their ranks in the order of strcmp
    AGES,          \* the ages; a line without one leaves what malloc returned
    INT_VALUES,    \* number of values of an int
    ITERATIONS,    \* iterations of main's loop (10 in the code)
    MAX_PATIENTS   \* bound: patients admitted

ASSUME RoomAssumption ==
    /\ NAMES \subseteq Int
    /\ AGES \subseteq Int
    /\ INT_VALUES \in Nat \ {0}
    /\ ITERATIONS \in Nat \ {0}
    /\ MAX_PATIENTS \in Nat

\* What the queue holds, and the two ways it can be ordered (option -y).
Patient == [name : NAMES, age : AGES]

\* A difference of two ints, as the build computes it when it overflows.
difference(x, y) == ((x - y + INT_VALUES \div 2) % INT_VALUES) - INT_VALUES \div 2

compare_patient_name(a, b) == a.name - b.name
compare_patient_age(a, b) ==
    IF difference(a.age, b.age) = 0 THEN compare_patient_name(a, b)
    ELSE difference(a.age, b.age)

compares ==
    {[x \in Patient \X Patient |-> compare_patient_name(x[1], x[2])],
     [x \in Patient \X Patient |-> compare_patient_age(x[1], x[2])]}

ASSUME QueueOfPatients == Element = Patient /\ Comparisons = compares

VARIABLES
    stage,        \* "reading", "draining", "success" or "failure"
    iterations,
    admitted,     \* history: the patients for whom there was memory
    lost,         \* history: those whom the queue did not take
    structs, names, queue

main == <<stage, iterations, admitted, lost, structs, names, queue>>
vars == <<heap, main>>

Init ==
    /\ HeapInit
    /\ stage = "reading"
    /\ iterations = 0
    /\ admitted = 0
    /\ lost = 0
    /\ structs = 0
    /\ names = 0
    /\ queue = 3

\* A line with a patient, for whom there is memory and room.
Admit(p) ==
    /\ stage = "reading"
    /\ admitted < MAX_PATIENTS
    /\ array_append(p)
    /\ admitted' = admitted + 1
    /\ structs' = structs + 1
    /\ names' = names + 1
    /\ UNCHANGED <<stage, iterations, lost, queue>>

\* The queue does not take the patient and main is not told.
Lose ==
    /\ stage = "reading"
    /\ admitted < MAX_PATIENTS
    /\ append_fails
    /\ admitted' = admitted + 1
    /\ lost' = lost + 1
    /\ structs' = structs + 1
    /\ names' = names + 1
    /\ UNCHANGED <<stage, iterations, queue>>

\* No memory for a patient (only the structs of those who wait are freed then)
\* or for the name (the new struct is not freed); the end of the input is
\* handled as the first.
Fail ==
    /\ stage = "reading"
    /\ stage' = "failure"
    /\ prioq_cleanup
    /\ queue' = 0
    /\ \/ /\ structs' = structs - array_size
          /\ UNCHANGED names
       \/ /\ structs' = structs + 1 - array_size
          /\ names' = names - array_size
    /\ UNCHANGED <<iterations, admitted, lost>>

\* Mutant: free_patient frees the struct only.
Serve_keeps_name == heap_pop /\ structs' = structs - 1 /\ UNCHANGED names

\* The patient popped is printed and freed.
Serve == heap_pop /\ structs' = structs - 1 /\ names' = names - 1

\* A line with a ".".
Dot ==
    /\ stage = "reading"
    /\ \/ Serve
       \/ array_size = 0 /\ at = "idle" /\ UNCHANGED <<heap, structs, names>>
    /\ iterations' = iterations + 1
    /\ stage' = IF iterations' = ITERATIONS THEN "draining" ELSE "reading"
    /\ UNCHANGED <<admitted, lost, queue>>

\* Mutant: the loop goes on when a pop returns NULL.
Drain_on ==
    /\ stage = "draining"
    /\ \/ Serve
       \/ array_size = 0 /\ at = "idle" /\ UNCHANGED <<heap, structs, names>>
    /\ UNCHANGED <<stage, iterations, admitted, lost, queue>>

\* After the last iteration: pop until the queue is empty, then clean it up.
Drain ==
    /\ stage = "draining"
    /\ \/ Serve /\ UNCHANGED <<stage, queue>>
       \/ /\ array_size = 0
          /\ prioq_cleanup
          /\ stage' = "success"
          /\ queue' = 0
          /\ UNCHANGED <<structs, names>>
    /\ UNCHANGED <<iterations, admitted, lost>>

Loops == (SiftUp \/ SiftDown) /\ UNCHANGED main

Next == (\E p \in Patient : Admit(p)) \/ Lose \/ Fail \/ Dot \/ Drain \/ Loops

Spec == Init /\ [][Next]_vars

\* The program runs by itself but for its input.
FairSpec == Spec /\ WF_vars(Drain \/ Loops)

-----------------------------------------------------------------------------
(* Properties *)

\* Every patient for whom there was memory is in the queue, or was served and
\* freed, or was lost when the queue could not grow and is never freed; after
\* the last iteration all those in the queue were served.  When main gives up,
\* those who wait are freed too, but for either their names (no memory for a
\* patient, end of the input) or the new patient (none for the name).
PatientsAccounted ==
    /\ stage \in {"reading", "draining"} =>
          structs = array_size + lost /\ names = array_size + lost
    /\ stage = "success" => structs = lost /\ names = lost /\ queue = 0
    /\ stage = "failure" =>
          /\ queue = 0
          /\ \/ structs = lost /\ names \in lost..admitted
             \/ structs = lost + 1 /\ names = lost
    /\ lost > 0 => admitted > ARRSIZE

\* The drain comes to its end: every pop and every loop of a pop does.
DrainEnds == stage = "draining" ~> stage = "success"
=============================================================================
