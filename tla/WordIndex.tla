------------------------------ MODULE WordIndex ------------------------------
(***************************************************************************)
(* The users of hash_table.c: a client that makes any call, or the program   *)
(* of main.c, which indexes the words of a file by their line and looks up    *)
(* the words of its input ("lookup"), or times the construction of the index *)
(* with several parameters ("benchmark").  A step is a library call and what  *)
(* follows up to the next one; `stage` says which comes next.                 *)
(* Abstracted: characters (a line is the sequence of the words that            *)
(* cleanup_string and strtok make of it; one too long for the buffer is two)   *)
(* and the clock.                                                             *)
(***************************************************************************)
EXTENDS HashTable, SequencesExt

CONSTANTS
    TABLE_START_SIZE, MAX_LOAD_FACTOR, HASH_FUNCTION,   \* of the index that is
                                                        \* looked up in
    start_sizes, max_loads, hash_funcs,   \* the sequences that are timed
    ULONG_MAX,   \* the size of an array that is NULL
    NO_WORD,     \* strtok's NULL
    MAX_LINES, MAX_WORDS   \* bounds: lines in the file, words in a line

ASSUME IndexAssumption ==
    /\ TABLE_START_SIZE \in Nat /\ MAX_LOAD_FACTOR \in Nat \X (Nat \ {0})
    /\ HASH_FUNCTION \in DOMAIN HASH /\ hash_funcs \in Seq(DOMAIN HASH)
    /\ start_sizes \in Seq(Nat) /\ max_loads \in Seq(Nat \X (Nat \ {0}))
    /\ <<>> \notin {start_sizes, max_loads, hash_funcs}
    /\ NO_WORD \notin Key
    /\ MAX_LINES \in Nat /\ MAX_WORDS \in Nat
    /\ 1..MAX_LINES \subseteq Value
    /\ ULONG_MAX \in Nat /\ ULONG_MAX > MAX_LINES * MAX_WORDS

VARIABLES
    user,
    stage,
    held,     \* what main holds: "file", "line", "delim"
    round,    \* constructions that were timed: i, j and k in one number
    read,     \* history: the lines of the file; as many as line_number says
    rest,     \* the words strtok has still to give
    word,     \* the word that is looked up
    output    \* the numbers printed for it, as many as i counts

main_vars == <<user, stage, held, round, read, rest, word, output>>
vars == <<table_vars, main_vars>>

Line == BoundedSeq(Key, MAX_WORDS)

Init ==
    /\ TableInit
    /\ user \in {"client", "lookup", "benchmark"}
    /\ stage = "open"
    /\ held = {}
    /\ round = 0
    /\ read = <<>>
    /\ rest = <<>>
    /\ word = NO_WORD
    /\ output = <<>>

Goto(here, there) == stage = here /\ stage' = there

\* malloc gives the block, or memory is short and it does not.
Holding(block) == held' = held \cup {block} \/ (~memory_lasts /\ UNCHANGED held)

TableUnchanged == UNCHANGED <<table, blocks, answer, aborted>>
InputUnchanged == UNCHANGED <<read, rest, word, output>>

-----------------------------------------------------------------------------
(* create_from_file *)

parameters ==
    IF user = "lookup" THEN <<TABLE_START_SIZE, MAX_LOAD_FACTOR, HASH_FUNCTION>>
    ELSE LET pair == round \div Len(hash_funcs)
         IN  <<start_sizes[pair \div Len(max_loads) + 1],
               max_loads[(pair % Len(max_loads)) + 1],
               hash_funcs[(round % Len(hash_funcs)) + 1]>>

\* The file cannot be opened, or there is no memory for the line.
OpenFails == Goto("open", "created") /\ TableUnchanged /\ UNCHANGED held

Open ==
    /\ Goto("open", "table")
    /\ held' = {"file", "line"}
    /\ TableUnchanged

\* Without a table the file is read all the same.
MakeTable ==
    /\ Goto("table", "fgets")
    /\ table_init(parameters[1], parameters[2], parameters[3])
    /\ Holding("delim")

ReadLine(l) ==
    /\ stage = "fgets"
    /\ Len(read) < MAX_LINES
    /\ TableUnchanged
    /\ \/ /\ "delim" \notin held     \* strtok follows the null pointer
          /\ stage' = "crashed"
          /\ UNCHANGED <<read, rest>>
       \/ /\ "delim" \in held
          /\ read' = Append(read, l)
          /\ rest' = l
          /\ stage' = IF l = <<>> THEN "fgets" ELSE "insert"
    /\ UNCHANGED <<held, round, word, output, user>>

\* Mutant: the line is counted when its words are in the table.
line_number_late == Len(read) - 1

line_number == Len(read)

\* The answer of table_insert is not looked at.
InsertWord ==
    /\ stage = "insert"
    /\ table_insert(Head(rest), line_number)
    /\ rest' = Tail(rest)
    /\ stage' = IF Len(rest) = 1 THEN "fgets" ELSE "insert"
    /\ UNCHANGED <<held, round, read, word, output, user>>

\* Mutant: the delimiters are not freed.
EndOfFile_leaks == Goto("fgets", "created") /\ held' = {"delim"} /\ TableUnchanged

EndOfFile == Goto("fgets", "created") /\ held' = {} /\ TableUnchanged

-----------------------------------------------------------------------------
(* main without -t, and stdin_lookup *)

NoTable ==
    /\ user = "lookup" /\ is_null
    /\ Goto("created", "failure")
    /\ TableUnchanged /\ UNCHANGED held

\* There is no memory for stdin_lookup's line.
LookupFails ==
    /\ user = "lookup" /\ ~is_null /\ ~memory_lasts
    /\ Goto("created", "failure")
    /\ table_cleanup /\ UNCHANGED held

StartLookup ==
    /\ user = "lookup" /\ ~is_null
    /\ Goto("created", "query")
    /\ \/ held' = {"line", "delim"}
       \/ ~memory_lasts /\ held' = {"line"}
    /\ TableUnchanged

\* Only the first word of a line is looked up.  A line without one gives
\* NULL, which has no array, and which printf may or may not accept.
Query(l) ==
    /\ stage = "query"
    /\ UNCHANGED <<held, round, read, rest, output, user>>
    /\ \/ /\ "delim" \notin held \/ l = <<>>
          /\ stage' = "crashed"
          /\ TableUnchanged /\ UNCHANGED word
       \/ /\ "delim" \in held
          /\ stage' = "print"
          /\ \/ l = <<>> /\ TableUnchanged /\ UNCHANGED word
             \/ l # <<>> /\ word' = Head(l) /\ table_lookup(Head(l))

word_array == IF word = NO_WORD THEN <<>> ELSE answer
array_size(a) == IF a = <<>> THEN ULONG_MAX ELSE Len(a)
array_get(a, index) == IF index < Len(a) THEN a[index + 1] ELSE -1

\* Mutant: i is not advanced.
Printed_stays == <<array_get(word_array, 0)>>

Printed == Append(output, array_get(word_array, Len(output)))

PrintNumber ==
    /\ stage = "print"
    /\ Len(output) < array_size(word_array)
    /\ output' = Printed
    /\ TableUnchanged
    /\ UNCHANGED <<stage, held, round, read, rest, word, user>>

EndOfWord ==
    /\ Goto("print", "query")
    /\ Len(output) = array_size(word_array)
    /\ output' = <<>>
    /\ word' = NO_WORD
    /\ TableUnchanged
    /\ UNCHANGED <<held, round, read, rest, user>>

EndOfInput == Goto("query", "success") /\ held' = {} /\ table_cleanup

-----------------------------------------------------------------------------
(* timed_construction *)

Timed ==
    /\ user = "benchmark" /\ stage = "created"
    /\ table_cleanup
    /\ round' = round + 1
    /\ stage' = IF round' < Len(start_sizes) * Len(max_loads) * Len(hash_funcs)
                THEN "open" ELSE "success"
    /\ read' = <<>>
    /\ UNCHANGED <<held, rest, word, output, user>>

-----------------------------------------------------------------------------
\* The steps of main that wait for nothing.
Work ==
    \/ /\ InputUnchanged /\ UNCHANGED <<user, round>>
       /\ OpenFails \/ Open \/ MakeTable \/ NoTable \/ LookupFails \/ StartLookup
    \/ InsertWord \/ PrintNumber \/ EndOfWord \/ Timed

Main ==
    \/ Work
    \/ \E l \in Line : ReadLine(l) \/ Query(l)
    \/ InputUnchanged /\ UNCHANGED <<user, round>> /\ (EndOfFile \/ EndOfInput)

Next ==
    /\ ~aborted
    /\ UNCHANGED memory_lasts
    /\ \/ user = "client" /\ Call /\ UNCHANGED main_vars
       \/ user # "client" /\ Main

\* The program goes on by itself except where it waits for a line.
MainStep == ~aborted /\ user # "client" /\ UNCHANGED memory_lasts /\ Work

Spec == Init /\ [][Next]_vars /\ WF_vars(MainStep)

-----------------------------------------------------------------------------
(* Properties *)

Times(s, x) == Cardinality({p \in DOMAIN s : s[p] = x})

\* The numbers of the lines that a word occurs in.
LinesWith(w) == {n \in 1..Len(read) : \E p \in DOMAIN read[n] : read[n][p] = w}

\* A lookup prints the lines of a word in the file and no other, in order, and
\* each as often as the word occurs in it, however often the table and the
\* arrays grew: all of them while memory lasts, and none in which the word is
\* not when it does not.  For a word that is not in the index -1 is printed, and
\* not once but ULONG_MAX times (main.c:119).
PrintsOccurrences ==
    stage = "print" /\ ~aborted =>
        /\ \A j \in DOMAIN word_array : word_array[j] \in LinesWith(word)
        /\ memory_lasts =>
              /\ \A i, j \in DOMAIN word_array : i < j => word_array[i] <= word_array[j]
              /\ \A n \in 1..Len(read) : Times(word_array, n) = Times(read[n], word)
        /\ \A j \in DOMAIN output :
              output[j] = IF word_array = <<>> THEN -1 ELSE word_array[j]

\* main ends with nothing on the heap and no file open, on every way out.
MainFreesAll ==
    stage \in {"success", "failure"} /\ ~aborted => held = {} /\ blocks = 0

\* The lookup of a word that is in the index comes to an end.
LookupsEnd ==
    (stage = "print" /\ word_array # <<>> /\ ~aborted) ~> (stage = "query")
=============================================================================
