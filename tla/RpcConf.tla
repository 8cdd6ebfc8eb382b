------------------------------ MODULE RpcConf ------------------------------
(***************************************************************************)
(* init_cgi of common.c: the globals of the library take their defaults,   *)
(* then what the lines name=value of a configuration file say.             *)
(*                                                                         *)
(* A line is chosen when it is read; end of file may come at any line.     *)
(***************************************************************************)
EXTENDS Naturals, Sequences, SequencesExt

CONSTANTS
    ConfNames,      \* names in configuration files
    Globals,        \* those of the globals
    Part,           \* Part[n]: the names that contain n as a substring, n among them
    Values,         \* values of parameters
    MaxParams,      \* MAX_PARAMS
    MaxLines        \* bound on the lines of a file

ASSUME ConfAssumption ==
    /\ Globals \subseteq ConfNames
    /\ Part \in [ConfNames -> SUBSET ConfNames]
    /\ \A n \in ConfNames : n \in Part[n]
    /\ MaxParams \in Nat /\ MaxLines \in Nat

VARIABLES
    conf,       \* the globals
    file,       \* the file that is read
    lines,      \* for each file, what fgets returned (history)
    params,     \* the array of parameters, up to num_of_params
    reading     \* "open", "read", "assign" or "done"
confVars == <<conf, file, lines, params, reading>>

Default == "default"
Junk == <<>>        \* a line that sscanf does not take for name=value
Lines == (ConfNames \X Values) \cup {Junk}

\* the file that $MODSEC names, and those that are tried without it
FileSet == {"modsec", "first", "second"}

ConfTypeOK ==
    /\ conf \in [Globals -> Values \cup {Default}]
    /\ file \in FileSet
    /\ lines \in [FileSet -> Seq(Lines)]
    /\ params \in Seq(ConfNames \X Values)
    /\ reading \in {"open", "read", "assign", "done"}
-----------------------------------------------------------------------------
\* mutant: needle and haystack swapped
FindParamSwapped(name, array) ==
    SelectInSeq(array, LAMBDA p : name \in Part[p[1]])

\* find_param_idx: the first parameter whose name contains the given one (0: none)
FindParam(name, array) == SelectInSeq(array, LAMBDA p : p[1] \in Part[name])

\* fopen; if it fails there are no parameters
OpenConf ==
    /\ reading = "open"
    /\ reading' \in {"read", "assign"}
    /\ UNCHANGED <<conf, file, lines, params>>

\* a round of parse_file's loop
ReadConfLine ==
    /\ reading = "read"
    /\ Len(params) < MaxParams
    /\ Len(lines[file]) < MaxLines
    /\ \E l \in Lines :
          /\ lines' = [lines EXCEPT ![file] = Append(@, l)]
          /\ params' = IF l = Junk THEN params ELSE Append(params, l)
    /\ UNCHANGED <<conf, file, reading>>

\* the end of the file, or no more room
EndConf ==
    /\ reading = "read"
    /\ reading' = "assign"
    /\ UNCHANGED <<conf, file, lines, params>>

\* read_conf_file: every global whose parameter is found takes its value; init_cgi tries
\* the second file if the first one gave no parameter
AssignConf ==
    /\ reading = "assign"
    /\ conf' = [n \in Globals |->
                   LET idx == FindParam(n, params) IN
                   IF idx = 0 THEN conf[n] ELSE params[idx][2]]
    /\ \/ /\ file = "first" /\ params = <<>>
          /\ file' = "second"
          /\ reading' = "open"
       \/ /\ file # "first" \/ params # <<>>
          /\ reading' = "done"
          /\ UNCHANGED file
    /\ UNCHANGED <<lines, params>>

ConfInit ==
    /\ conf = [n \in Globals |-> Default]
    /\ file \in {"modsec", "first"}
    /\ lines = [f \in FileSet |-> <<>>]
    /\ params = <<>>
    /\ reading = "open"

ConfNext == OpenConf \/ ReadConfLine \/ EndConf \/ AssignConf
ConfSpec == ConfInit /\ [][ConfNext]_confVars
-----------------------------------------------------------------------------
(* Properties *)

\* The lines name=value among those that count: of the file of $MODSEC or, without it, of
\* the first file that has any.
Counting ==
    LET f == IF file = "modsec" THEN "modsec"
             ELSE IF \E i \in 1..Len(lines["first"]) : lines["first"][i] # Junk
                  THEN "first" ELSE "second"
    IN  lines[f]

\* A global has the value of the first line read with its own name, or its default, as long
\* as no other name that was read contains that name.  (MODSEC_RPC does not, if the line of
\* MODSEC_RPC_HOME comes before its own.)
ConfOwnValue ==
    reading = "done" =>
        LET Named(i, n) == Counting[i] # Junk /\ Counting[i][1] = n
            read == 1..Len(Counting)
        IN  \A n \in Globals :
                (\A i \in read : Counting[i] # Junk /\ Counting[i][1] \in Part[n] => Named(i, n))
                => \/ conf[n] = Default /\ \A i \in read : ~Named(i, n)
                   \/ \E i \in read :
                         /\ Counting[i] = <<n, conf[n]>>
                         /\ \A j \in 1..(i - 1) : ~Named(j, n)
=============================================================================
