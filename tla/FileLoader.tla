----------------------------- MODULE FileLoader -----------------------------
(***************************************************************************)
(* What the plugin promises of each file it watches, said without timers,  *)
(* goroutines and locks: it is as if one loader read one file at a time    *)
(* and, before it reads again, either used what it had read or refused it. *)
(* ConfigPipeline (zone files) and LocationMap implement this.             *)
(***************************************************************************)
CONSTANTS
    Files,     \* the watched files
    Contents,  \* what a file can hold
    Usable,    \* those of the contents that can be used
    Dependent, \* those of the files that may be refused for another file's sake
    Nothing    \* nothing has been read

VARIABLES
    content, \* of each file
    reading, \* the file that was read last and its content, until it is dealt with
    used     \* what is in use of each file

vars == <<content, reading, used>>

Init ==
    /\ content \in [Files -> Contents]
    /\ reading = Nothing
    /\ used = content

\* Somebody else writes the file.
Change(f) ==
    /\ content'[f] \in Contents
    /\ content' = [content EXCEPT ![f] = content'[f]]
    /\ UNCHANGED <<reading, used>>

Read(f) ==
    /\ reading = Nothing
    /\ reading' = [file |-> f, content |-> content[f]]
    /\ UNCHANGED <<content, used>>

Use ==
    /\ reading # Nothing
    /\ reading.content \in Usable
    /\ used' = [used EXCEPT ![reading.file] = reading.content]
    /\ reading' = Nothing
    /\ UNCHANGED content

Refuse ==
    /\ reading # Nothing
    /\ reading.content \in Usable => reading.file \in Dependent
    /\ reading' = Nothing
    /\ UNCHANGED <<content, used>>

Next ==
    \/ \E f \in Files : Change(f) \/ Read(f)
    \/ Use
    \/ Refuse

Spec == Init /\ [][Next]_vars

\* A file that nobody changes any more and that holds something usable is in use
\* as it is.
Follows(f) ==
    (<>[][FALSE]_content /\ <>[](content[f] \in Usable)) => <>[](used[f] = content[f])
=============================================================================
