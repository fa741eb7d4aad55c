------------------------------ MODULE TomlConfig ------------------------------
(***************************************************************************)
(* TomlConfig (src/src/config/config.cpp): the settings of a process, read *)
(* once from a file when getInstance is first called and written back when *)
(* the process ends, if the file is gone by then.  Several processes (the  *)
(* server, tools, tests) and the user share the files.                     *)
(*                                                                         *)
(* A value stands for itself: Default is the one setDefaultValues gives,   *)
(* Edited another one the setting can hold, Long one it cannot: a number   *)
(* beyond int, or several characters where a char is kept; Cut is what     *)
(* such a setting makes of Long, Part the first digits of a number, where  *)
(* a file ends in it.  Unset is an indeterminate member.                   *)
(***************************************************************************)
EXTENDS Naturals, Sequences

CONSTANTS
  Proc,
  Path, ConfigToml,  \* paths of files; ConfigToml is "config.toml"
  EditField,         \* the settings a user changes, and those that a cut file lacks
  MaxEdits           \* bounds what the user does

\* The settings in the order of loadFromFile, as the type that keeps each.
Kind == <<"long long", "long long", "int", "int",         \* lsm.core
          "int", "int",                                   \* lsm.cache
          "string", "string", "string", "char", "char",   \* redis
          "string", "int", "string",
          "int", "double">>                               \* bloom_filter
Field == 1 .. Len(Kind)
Number == {f \in Field : Kind[f] \in {"long long", "int", "double"}}

Default == "default"   Edited == "edited"   Long == "long"   Cut == "cut"
Part    == "part"      Unset  == "unset"
Missing == "missing"   BadType == "bad type"

ASSUME TomlConfigAssumption ==
  /\ ConfigToml \in Path /\ EditField \subseteq Field /\ MaxEdits \in Nat

VARIABLES
  file,      \* path -> its contents
  pc,        \* process -> "off", "opening", "running", "saving", "writing"
  config_file_path_,
  linked,    \* process -> the file it writes is still the one at its path
  settings,  \* process -> the members of its instance
  source,    \* process -> the save it was loaded from (history variable)
  overtaken, \* process -> the file appeared after the destructor found that
             \* there was none (history variable)
  author,    \* path -> the save that made the file, if nobody touched it since
             \* (history variable)
  edits

vars == <<file, pc, config_file_path_, linked, settings, source, overtaken, author, edits>>

-----------------------------------------------------------------------------
(* Files.                                                                  *)

Absent   == [there |-> FALSE, parses |-> FALSE, at |-> [f \in Field |-> Missing]]
Empty    == [there |-> TRUE, parses |-> TRUE, at |-> [f \in Field |-> Missing]]
Garbled  == [there |-> TRUE, parses |-> FALSE, at |-> [f \in Field |-> Missing]]
Shipped  == [there |-> TRUE, parses |-> TRUE, at |-> [f \in Field |-> Default]]

\* setDefaultValues
Defaults == [f \in Field |-> Default]

\* What the member makes of a value.
Kept(f, v) == IF v = Long /\ Kind[f] \in {"int", "char"} THEN Cut ELSE v

\* How many settings are read before one is missing or has another type: that
\* one throws, and the rest is not looked at.
Readable(content) ==
  IF ~content.parses THEN 0
  ELSE LET bad == {f \in Field : content.at[f] \in {Missing, BadType}}
       IN  IF bad = {} THEN Len(Kind) ELSE (CHOOSE f \in bad : \A g \in bad : f <= g) - 1

\* Fault: the members are not given their defaults first.
LoadOnTop(content) ==
  [f \in Field |-> IF f <= Readable(content) THEN Kept(f, content.at[f]) ELSE Unset]

\* The defaults, overwritten one by one until something throws.  The constructor
\* would go back to the defaults, but the exception does not get as far as that.
loadFromFile(content) ==
  [f \in Field |-> IF f <= Readable(content) THEN Kept(f, content.at[f]) ELSE Default]

\* Fault: the block size is not written back.
SavedWithoutBlockSize(s) == [Empty EXCEPT !.at = [s EXCEPT ![3] = Missing]]

\* What saveToFile writes: every setting, as the type it has.
Saved(s) == [Empty EXCEPT !.at = s]

\* A save, for the properties: by an instance with these settings, and whether all of
\* the text got to the file.  Nobody saved a file that the user made.
Save(s, whole) == [saved |-> TRUE, whole |-> whole, at |-> s]
Nobody == [saved |-> FALSE, whole |-> FALSE, at |-> Defaults]

-----------------------------------------------------------------------------
Init ==
  /\ file \in [Path -> {Absent, Shipped}]
  /\ pc = [p \in Proc |-> "off"]
  /\ config_file_path_ = [p \in Proc |-> ConfigToml]
  /\ linked = [p \in Proc |-> FALSE]
  /\ settings = [p \in Proc |-> Defaults]
  /\ source = [p \in Proc |-> Nobody]
  /\ overtaken = [p \in Proc |-> FALSE]
  /\ author = [x \in Path |-> Nobody]
  /\ edits = 0

\* The process is over, by its own will or not; its memory is gone.
Over(p) ==
  /\ pc' = [pc EXCEPT ![p] = "off"]
  /\ config_file_path_' = [config_file_path_ EXCEPT ![p] = ConfigToml]
  /\ linked' = [linked EXCEPT ![p] = FALSE]
  /\ settings' = [settings EXCEPT ![p] = Defaults]
  /\ source' = [source EXCEPT ![p] = Nobody]
  /\ overtaken' = [overtaken EXCEPT ![p] = FALSE]

\* The first call of getInstance: an unreadable file is replaced by config.toml
\* of the working directory, not by the empty path.
getInstance(p, path) ==
  /\ pc[p] = "off"
  /\ config_file_path_' = [config_file_path_ EXCEPT ![p] =
                             IF file[path].there THEN path ELSE ConfigToml]
  /\ pc' = [pc EXCEPT ![p] = "opening"]
  /\ UNCHANGED <<file, linked, settings, source, overtaken, author, edits>>

\* The constructor: the file is opened a second time.
Construct(p) ==
  /\ pc[p] = "opening"
  /\ LET path == config_file_path_[p]
     IN  /\ settings' = [settings EXCEPT ![p] = loadFromFile(file[path])]
         /\ source' = [source EXCEPT ![p] = author[path]]
  /\ pc' = [pc EXCEPT ![p] = "running"]
  /\ UNCHANGED <<file, config_file_path_, linked, overtaken, author, edits>>

\* Fault: the settings are saved whether there is a file or not.
DestructAlways(p) ==
  /\ pc[p] = "running"
  /\ pc' = [pc EXCEPT ![p] = "saving"]
  /\ UNCHANGED <<overtaken, file, config_file_path_, linked, settings, source, author, edits>>

\* The destructor, at the end of the process: if the file is not there ...
Destruct(p) ==
  /\ pc[p] = "running"
  /\ IF file[config_file_path_[p]].there
     THEN Over(p)
     ELSE /\ pc' = [pc EXCEPT ![p] = "saving"]
          /\ UNCHANGED <<config_file_path_, linked, settings, source, overtaken>>
  /\ UNCHANGED <<file, author, edits>>

\* Another process is about to create the same file, or the user does.
Overtake(path) ==
  overtaken' = [q \in Proc |-> overtaken[q] \/
    (~file[path].there /\ config_file_path_[q] = path /\ pc[q] = "saving")]

\* ... saveToFile creates it, or empties the one that has appeared since ...
SaveOpen(p) ==
  LET path == config_file_path_[p]
  IN  /\ pc[p] = "saving"
      /\ file' = [file EXCEPT ![path] = Empty]
      /\ author' = [author EXCEPT ![path] = Nobody]
      /\ Overtake(path)
      /\ linked' = [linked EXCEPT ![p] = TRUE]
      /\ pc' = [pc EXCEPT ![p] = "writing"]
      /\ UNCHANGED <<config_file_path_, settings, source, edits>>

\* What is left of the text on a full disk: it lacks some settings, any ones, since a
\* toml::table has the order of its hash table, and may end inside a number.
Torn(s) ==
  {[Empty EXCEPT !.at = [f \in Field |-> IF f \in lost THEN Missing
                                       ELSE IF f \in last THEN Part ELSE s[f]]] :
     lost \in SUBSET EditField, last \in {{}} \cup {{f} : f \in EditField \cap Number}}

\* What may be at the path after a write of s: the whole text; a part of it; no text
\* that parses, also when a longer one that another process wrote to the same file
\* sticks out behind it.  Nobody notices.
Written(s) == {Saved(s), Garbled} \cup Torn(s)

\* ... and writes the settings when it closes it, unless nothing at all gets there.
SaveClose(p) ==
  LET path == config_file_path_[p]
  IN  /\ pc[p] = "writing"
      /\ \/ /\ linked[p]
            /\ \E content \in Written(settings[p]) :
                 /\ file' = [file EXCEPT ![path] = content]
                 /\ author' = [author EXCEPT ![path] =
                                Save(settings[p], content = Saved(settings[p]))]
         \/ UNCHANGED <<file, author>>
      /\ Over(p)
      /\ edits' = edits

Crash(p) ==
  /\ pc[p] # "off"
  /\ Over(p)
  /\ UNCHANGED <<file, author, edits>>

\* The user removes a file, or puts one there as editors do: a new file takes the
\* place of the old.
Edit(path, content) ==
  /\ edits < MaxEdits /\ edits' = edits + 1
  /\ content # file[path]
  /\ file' = [file EXCEPT ![path] = content]
  /\ author' = [author EXCEPT ![path] = Nobody]
  /\ IF content.there THEN Overtake(path) ELSE overtaken' = overtaken
  /\ linked' = [p \in Proc |-> linked[p] /\ config_file_path_[p] # path]
  /\ UNCHANGED <<pc, config_file_path_, settings, source>>

OneChange(content) ==
  {[content EXCEPT !.at[f] = v] : f \in EditField, v \in {Edited, Long, BadType}}

Program ==
  \E p \in Proc :
    \/ \E path \in Path : getInstance(p, path)
    \/ Construct(p) \/ Destruct(p) \/ SaveOpen(p) \/ SaveClose(p) \/ Crash(p)

User ==
  \E path \in Path :
    \E content \in {Absent, Shipped} \cup
                   (IF file[path].there THEN OneChange(file[path]) ELSE {}) :
      Edit(path, content)

Next == Program \/ User

Spec == Init /\ [][Next]_vars

-----------------------------------------------------------------------------
(* Properties.                                                             *)

Value == {Default, Edited, Long, Cut, Part}

\* Every variable keeps its type; in particular no setting is ever indeterminate,
\* and none holds more than its type can.
TypeOK ==
  /\ \A p \in Proc :
       /\ pc[p] \in {"off", "opening", "running", "saving", "writing"}
       /\ config_file_path_[p] \in Path
       /\ linked[p] => pc[p] = "writing"
       /\ \A f \in Field : settings[p][f] \in Value
                             /\ (Kind[f] \in {"int", "char"} => settings[p][f] # Long)
  /\ \A x \in Path : file[x].parses => file[x].there
  /\ edits \in 0 .. MaxEdits

\* The settings that are neither what the save had nor the default.
Strange(p) == {f \in Field : settings[p][f] \notin {source[p].at[f], Default}}

\* A process that finds a file which another one saved when it ended, and which
\* nobody touched since, runs in every setting with what that process ran with.  If
\* only a part of the text got to the file, or none that parses, it runs with that or
\* the default in all settings but one at most, the number the text may end in.
\* (Which of the two it is behind a missing setting is left open.)
RestartKeepsSettings ==
  \A p \in Proc : source[p].saved /\ pc[p] \in {"running", "saving", "writing"} =>
    /\ source[p].whole => settings[p] = source[p].at
    /\ \A f, g \in Strange(p) : f = g

\* A program changes a file that is there only if the file appeared between
\* the moment its destructor looked for it and the moment it saved, or if it made
\* the file itself and is still writing it.
FilesAreKept ==
  [][\A x \in Path :
       file[x].there /\ file'[x] # file[x] /\ edits' = edits =>
         \E p \in Proc :
           /\ config_file_path_[p] = x
           /\ (pc[p] = "saving" /\ overtaken[p]) \/ (pc[p] = "writing" /\ linked[p])]_vars
==============================================================================
