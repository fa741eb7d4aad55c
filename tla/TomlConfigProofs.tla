--------------------------- MODULE TomlConfigProofs ---------------------------
(***************************************************************************)
(* Theorems about TomlConfig: every setting is one its type can hold, what *)
(* a process saved is what the next one runs with, or a part of it is if   *)
(* only a part got to the file, and a program changes a file only while it *)
(* makes it or if it appeared under its hands.                             *)
(*                                                                         *)
(* They hold for any number of processes and files, and any edits.         *)
(***************************************************************************)
EXTENDS TomlConfig, CommonTheorems

State == {"off", "opening", "running", "saving", "writing"}

\* The contents a file can have.  Only a file that is there parses.
Content == {c \in [there : BOOLEAN, parses : BOOLEAN,
                   at : [Field -> Value \cup {Missing, BadType}]] : c.parses => c.there}

\* The settings an instance can have: none beyond its type.
Setting == {s \in [Field -> Value] :
              \A f \in Field : Kind[f] \in {"int", "char"} => s[f] # Long}

\* The saves there can be, and none.
Saves == {a \in [saved : BOOLEAN, whole : BOOLEAN, at : Setting] : a.whole => a.saved}

-----------------------------------------------------------------------------
(* The inductive invariant.                                                *)

TypeInv ==
  /\ file \in [Path -> Content] /\ author \in [Path -> Saves]
  /\ pc \in [Proc -> State] /\ config_file_path_ \in [Proc -> Path]
  /\ linked \in [Proc -> BOOLEAN] /\ overtaken \in [Proc -> BOOLEAN]
  /\ settings \in [Proc -> Setting] /\ source \in [Proc -> Saves]
  /\ edits \in 0 .. MaxEdits

\* A file a process writes is there.
LinkedIsThere ==
  \A p \in Proc : linked[p] => pc[p] = "writing" /\ file[config_file_path_[p]].there

\* What a save of these settings leaves behind: all of it, if it is whole.
Left(a, content) ==
  content \in Written(a.at) /\ (a.whole => content = Saved(a.at))

\* An instance made from a file that was saved holds what that file gives.
Loaded ==
  \A p \in Proc : source[p].saved /\ pc[p] \in {"running", "saving", "writing"} =>
    \E content \in Content : Left(source[p], content) /\ settings[p] = loadFromFile(content)

\* A destructor that saves saw no file: if there is one, it is news.
News ==
  \A p \in Proc : pc[p] = "saving" /\ file[config_file_path_[p]].there => overtaken[p]

\* What was saved last, and touched by nobody, is there.
Authored == \A x \in Path : author[x].saved => Left(author[x], file[x])

Inv == TypeInv /\ LinkedIsThere /\ Loaded /\ News /\ Authored

-----------------------------------------------------------------------------
(* Loading and saving.                                                     *)

\* There is a natural number of settings.
LEMMA Settings == Len(Kind) \in Nat /\ Field \subseteq Nat
<1>1. Len(Kind) = 16
  BY DEF Kind
<1> QED BY <1>1 DEF Field

\* What is read of a file stops right before the first setting that is missing
\* or of another type, or behind the last one if there is none.
LEMMA Stops ==
  ASSUME NEW content \in Content
  PROVE  /\ Readable(content) \in 0 .. Len(Kind)
         /\ \A f \in Field : f <= Readable(content) => content.at[f] \in Value
         /\ content.parses /\ (\A f \in Field : content.at[f] \in Value)
              => Readable(content) = Len(Kind)
<1> DEFINE bad == {f \in Field : content.at[f] \in {Missing, BadType}}
<1>1. CASE ~content.parses
  BY <1>1, Settings DEF Readable, Field
<1>2. CASE content.parses /\ bad = {}
  <2>1. Readable(content) = Len(Kind)
    BY <1>2 DEF Readable
  <2>2. \A f \in Field : content.at[f] \in Value
    BY <1>2 DEF Content
  <2> QED BY <2>1, <2>2, Settings
<1>3. CASE content.parses /\ bad # {}
  <2>1. bad \subseteq Nat
    BY Settings
  <2>2. PICK f \in bad : \A g \in bad : f <= g
    BY <2>1, <1>3, Least
  <2> DEFINE first == CHOOSE h \in bad : \A g \in bad : h <= g
  <2>3. first \in bad /\ \A g \in bad : first <= g
    BY <2>2
  <2>4. Readable(content) = first - 1
    BY <1>3 DEF Readable
  <2> HIDE DEF first
  <2>5. first \in 1 .. Len(Kind)
    BY <2>3 DEF Field
  <2>6. \A g \in Field : g < first => content.at[g] \in Value
    BY <2>3, <2>1, Settings DEF Content
  <2>7. ~(\A g \in Field : content.at[g] \in Value)
    BY <2>3 DEF Value, Missing, BadType, Default, Edited, Long, Cut, Part
  <2> QED BY <2>4, <2>5, <2>6, <2>7, Settings
<1> QED BY <1>1, <1>2, <1>3

\* Every file, readable or not, leaves settings of the right types.
LEMMA LoadType ==
  ASSUME NEW content \in Content
  PROVE  loadFromFile(content) \in Setting
<1>1. ASSUME NEW f \in Field
      PROVE  /\ loadFromFile(content)[f] \in Value
             /\ Kind[f] \in {"int", "char"} => loadFromFile(content)[f] # Long
  BY Stops DEF loadFromFile, Kept, Value, Default, Edited, Long, Cut
<1> QED BY <1>1 DEF loadFromFile, Setting

\* A file with other settings.
LEMMA NewSettings ==
  ASSUME NEW x, NEW y, NEW s, NEW t
  PROVE  [[there |-> x, parses |-> y, at |-> s] EXCEPT !.at = t]
           = [there |-> x, parses |-> y, at |-> t]
OBVIOUS

\* A complete save is a file with these settings.
LEMMA SavedIs ==
  ASSUME NEW s \in Setting
  PROVE  /\ Saved(s) = [there |-> TRUE, parses |-> TRUE, at |-> s]
         /\ s \in [Field -> Value]
<1>1. Saved(s) = [there |-> TRUE, parses |-> TRUE, at |-> s]
  BY NewSettings DEF Saved, Empty
<1>2. s \in [Field -> Value]
  BY DEF Setting
<1> QED BY <1>1, <1>2

\* The settings of an instance come back from a file that holds all of them.
LEMMA SavedLoads ==
  ASSUME NEW s \in Setting
  PROVE  Saved(s) \in Content /\ Saved(s).at = s /\ loadFromFile(Saved(s)) = s
<1>1. /\ Saved(s) = [there |-> TRUE, parses |-> TRUE, at |-> s]
      /\ s \in [Field -> Value]
  BY SavedIs
<1>2. Saved(s) \in Content /\ Saved(s).at = s /\ Saved(s).parses
  BY <1>1 DEF Content, Value, Saved
<1>3. Readable(Saved(s)) = Len(Kind)
  BY <1>1, <1>2, Stops
<1>4. ASSUME NEW f \in Field PROVE loadFromFile(Saved(s))[f] = s[f]
  <2>1. f <= Len(Kind)
    BY Settings DEF Field
  <2> QED BY <2>1, <1>2, <1>3 DEF loadFromFile, Kept, Setting
<1> QED BY <1>1, <1>2, <1>4 DEF loadFromFile

\* The files the specification starts from, and those users make.
LEMMA FileTypes ==
  /\ Absent \in Content /\ Empty \in Content /\ Garbled \in Content /\ Shipped \in Content
  /\ Defaults \in Setting
  /\ ~Absent.there /\ Empty.there /\ Garbled.there /\ Shipped.there
BY DEF Absent, Empty, Garbled, Shipped, Defaults, Content, Setting, Value,
       Default, Long, Missing, BadType

\* One changed setting leaves a file that can be there.
LEMMA ChangeType ==
  ASSUME NEW c \in Content, c.there, NEW d \in OneChange(c), EditField \subseteq Field
  PROVE  d \in Content /\ d.there
<1>1. PICK f \in EditField, v \in {Edited, Long, BadType} : d = [c EXCEPT !.at[f] = v]
  BY DEF OneChange
<1>2. d = [c EXCEPT !.at = [c.at EXCEPT ![f] = v]]
  BY <1>1
<1> QED BY <1>2 DEF Content, Value

\* Nobody is no save, and Save is one.
LEMMA SaveTypes ==
  /\ Nobody \in Saves /\ ~Nobody.saved
  /\ \A s \in Setting : \A whole \in BOOLEAN :
       /\ Save(s, whole) \in Saves
       /\ Save(s, whole).saved /\ Save(s, whole).whole = whole /\ Save(s, whole).at = s
BY FileTypes DEF Nobody, Save, Saves

\* What a torn file has of each setting.
LEMMA TornIs ==
  ASSUME NEW s \in Setting, NEW c \in Torn(s)
  PROVE  /\ c \in Content /\ c.there
         /\ \E last : /\ \A f, g \in last : f = g
                      /\ \A f \in Field : c.at[f] \in {Missing, s[f], Part}
                                         /\ (c.at[f] = Part => f \in last \/ s[f] = Part)
<1>1. PICK lost \in SUBSET EditField, last \in {{}} \cup {{f} : f \in EditField \cap Number} :
        c = [Empty EXCEPT !.at = [f \in Field |-> IF f \in lost THEN Missing
                                               ELSE IF f \in last THEN Part ELSE s[f]]]
  BY DEF Torn
<1> DEFINE at == [f \in Field |-> IF f \in lost THEN Missing
                                 ELSE IF f \in last THEN Part ELSE s[f]]
<1>2. s \in [Field -> Value]
  BY DEF Setting
<1>3. c = [there |-> TRUE, parses |-> TRUE, at |-> at]
  <2>1. c = [Empty EXCEPT !.at = at]
    BY <1>1
  <2> HIDE DEF at
  <2> QED BY <2>1, NewSettings DEF Empty
<1>4. at \in [Field -> Value \cup {Missing, BadType}]
  BY <1>2 DEF Value
<1>5. c \in Content /\ c.there /\ c.at = at
  BY <1>3, <1>4 DEF Content
<1>6. \A f, g \in last : f = g
  BY <1>1
<1>7. ASSUME NEW f \in Field
      PROVE  /\ at[f] \in {Missing, s[f], Part}
             /\ at[f] = Part => f \in last \/ s[f] = Part
  BY DEF Missing, Part
<1> QED BY <1>5, <1>6, <1>7

\* Whatever a save leaves behind is a file that can be there.
LEMMA WrittenType ==
  ASSUME NEW s \in Setting, NEW c \in Written(s)
  PROVE  c \in Content /\ c.there
<1>1. Saved(s) \in Content /\ Saved(s).there
  BY SavedLoads, SavedIs
<1> QED BY <1>1, TornIs, FileTypes DEF Written

\* An instance that is made from what a save left has the settings of the save or the
\* defaults, in all settings but one.
LEMMA WrittenLoads ==
  ASSUME NEW s \in Setting, NEW c \in Written(s)
  PROVE  \A f, g \in Field : /\ loadFromFile(c)[f] \notin {s[f], Default}
                            /\ loadFromFile(c)[g] \notin {s[g], Default}
                            => f = g
<1>1. CASE c = Saved(s)
  BY <1>1, SavedLoads
<1>2. CASE c = Garbled
  <2>1. Readable(c) = 0
    BY <1>2 DEF Readable, Garbled
  <2>2. \A f \in Field : ~(f <= 0)
    BY DEF Field
  <2> QED BY <2>1, <2>2 DEF loadFromFile
<1>3. CASE c \in Torn(s)
  <2>1. c \in Content
    BY <1>3, TornIs
  <2>2. PICK last : /\ \A f, g \in last : f = g
                    /\ \A f \in Field : c.at[f] \in {Missing, s[f], Part}
                                       /\ (c.at[f] = Part => f \in last \/ s[f] = Part)
    BY <1>3, TornIs
  <2>3. ASSUME NEW f \in Field, loadFromFile(c)[f] \notin {s[f], Default}
        PROVE  f \in last
    <3>1. f <= Readable(c) /\ loadFromFile(c)[f] = Kept(f, c.at[f])
      BY <2>3 DEF loadFromFile
    <3>2. c.at[f] \in Value
      BY <2>1, <3>1, Stops
    <3>3. c.at[f] \in {s[f], Part}
      BY <2>2, <3>2 DEF Value, Missing, Default, Edited, Long, Cut, Part
    <3>4. Kept(f, s[f]) = s[f]
      BY DEF Kept, Setting
    <3>5. c.at[f] = Part
      BY <2>3, <3>1, <3>3, <3>4
    <3>6. Kept(f, Part) = Part
      BY DEF Kept, Part, Long
    <3> QED BY <2>2, <2>3, <3>1, <3>5, <3>6
  <2> QED BY <2>2, <2>3
<1> QED BY <1>1, <1>2, <1>3 DEF Written

-----------------------------------------------------------------------------
(* The invariant holds.                                                    *)

\* The step of a process that is gone says nothing about it.
LEMMA OverKeeps ==
  ASSUME Inv, NEW p \in Proc, Over(p)
  PROVE  /\ pc' \in [Proc -> State] /\ config_file_path_' \in [Proc -> Path]
         /\ linked' \in [Proc -> BOOLEAN] /\ overtaken' \in [Proc -> BOOLEAN]
         /\ settings' \in [Proc -> Setting] /\ source' \in [Proc -> Saves]
         /\ pc'[p] = "off" /\ ~linked'[p]
         /\ \A q \in Proc : q # p =>
              /\ pc'[q] = pc[q] /\ config_file_path_'[q] = config_file_path_[q]
              /\ linked'[q] = linked[q] /\ overtaken'[q] = overtaken[q]
              /\ settings'[q] = settings[q] /\ source'[q] = source[q]
BY TomlConfigAssumption, FileTypes, SaveTypes DEF Over, Inv, TypeInv, State

\* At first there are files of the user only, and no instance.
LEMMA InvInit == Init => Inv
<1> SUFFICES ASSUME Init PROVE Inv
  OBVIOUS
<1>1. TypeInv
  BY FileTypes, SaveTypes, TomlConfigAssumption DEF Init, TypeInv, State
<1>2. LinkedIsThere /\ Loaded /\ News /\ Authored
  BY SaveTypes DEF Init, LinkedIsThere, Loaded, News, Authored
<1> QED BY <1>1, <1>2 DEF Inv

\* getInstance looks for the file and remembers its path.
LEMMA GetInstanceInv ==
  ASSUME Inv, NEW p \in Proc, NEW path \in Path, getInstance(p, path)
  PROVE  Inv'
<1> USE DEF Inv, getInstance
<1>1. TypeInv'
  BY TomlConfigAssumption DEF TypeInv, State
<1>2. LinkedIsThere' /\ Loaded' /\ News' /\ Authored'
  BY DEF TypeInv, LinkedIsThere, Loaded, News, Authored
<1> QED BY <1>1, <1>2

\* The constructor loads over the defaults, or takes the defaults alone.
LEMMA ConstructInv ==
  ASSUME Inv, NEW p \in Proc, Construct(p)
  PROVE  Inv'
<1> USE DEF Inv, Construct
<1>1. file[config_file_path_[p]] \in Content
  BY DEF TypeInv
<1>2. TypeInv'
  BY <1>1, LoadType DEF TypeInv, State
<1>3. LinkedIsThere' /\ Loaded' /\ News' /\ Authored'
  BY DEF TypeInv, LinkedIsThere, Loaded, News, Authored
<1> QED BY <1>2, <1>3

\* The destructor looks whether the file is there and opens it only if it is not.
LEMMA DestructInv ==
  ASSUME Inv, NEW p \in Proc, Destruct(p)
  PROVE  Inv'
<1>1. CASE file[config_file_path_[p]].there
  <2>1. Over(p) /\ UNCHANGED <<file, author, edits>>
    BY <1>1 DEF Destruct
  <2> QED BY <2>1, OverKeeps DEF Inv, TypeInv, LinkedIsThere, Loaded, News, Authored
<1>2. CASE ~file[config_file_path_[p]].there
  <2>1. /\ pc[p] = "running" /\ pc' = [pc EXCEPT ![p] = "saving"]
        /\ UNCHANGED <<config_file_path_, linked, settings, source, overtaken, file, author, edits>>
    BY <1>2 DEF Destruct
  <2>2. TypeInv'
    BY <2>1 DEF Inv, TypeInv, State
  <2>3. LinkedIsThere' /\ Loaded' /\ News' /\ Authored'
    BY <1>2, <2>1 DEF Inv, TypeInv, LinkedIsThere, Loaded, News, Authored
  <2> QED BY <2>2, <2>3 DEF Inv
<1> QED BY <1>1, <1>2

\* A process that dies leaves the file as it is.
LEMMA CrashInv ==
  ASSUME Inv, NEW p \in Proc, Crash(p)
  PROVE  Inv'
<1>1. Over(p) /\ UNCHANGED <<file, author, edits>>
  BY DEF Crash
<1> QED BY <1>1, OverKeeps DEF Inv, TypeInv, LinkedIsThere, Loaded, News, Authored

\* Opening for writing empties the file, and takes it from whoever saved before.
LEMMA SaveOpenInv ==
  ASSUME Inv, NEW p \in Proc, SaveOpen(p)
  PROVE  Inv'
<1> DEFINE path == config_file_path_[p]
<1>1. /\ pc[p] = "saving" /\ path \in Path
      /\ file' = [file EXCEPT ![path] = Empty] /\ author' = [author EXCEPT ![path] = Nobody]
      /\ linked' = [linked EXCEPT ![p] = TRUE] /\ pc' = [pc EXCEPT ![p] = "writing"]
      /\ Overtake(path)
      /\ UNCHANGED <<config_file_path_, settings, source, edits>>
      /\ path = config_file_path_[p]
  BY DEF SaveOpen, Inv, TypeInv
<1> HIDE DEF path
<1>2. TypeInv'
  BY <1>1, FileTypes, SaveTypes DEF Inv, TypeInv, Overtake, State
<1>3. LinkedIsThere'
  BY <1>1, FileTypes DEF Inv, TypeInv, LinkedIsThere
<1>4. Loaded'
  BY <1>1 DEF Inv, TypeInv, Loaded
<1>5. News'
  BY <1>1 DEF Inv, TypeInv, News, Overtake
<1>6. Authored'
  BY <1>1, SaveTypes DEF Inv, TypeInv, Authored
<1> QED BY <1>2, <1>3, <1>4, <1>5, <1>6 DEF Inv

\* The write leaves what it can in the file, or is overtaken.
LEMMA SaveCloseInv ==
  ASSUME Inv, NEW p \in Proc, SaveClose(p)
  PROVE  Inv'
<1> DEFINE path == config_file_path_[p]
           s == settings[p]
<1>1. /\ Over(p) /\ edits' = edits /\ path \in Path /\ s \in Setting
  BY DEF SaveClose, Inv, TypeInv
<1>2. CASE UNCHANGED <<file, author>>
  BY <1>1, <1>2, OverKeeps DEF Inv, TypeInv, LinkedIsThere, Loaded, News, Authored
<1>3. CASE ~UNCHANGED <<file, author>>
  <2>1. PICK content \in Written(s) :
          /\ file' = [file EXCEPT ![path] = content]
          /\ author' = [author EXCEPT ![path] = Save(s, content = Saved(s))]
    BY <1>3 DEF SaveClose
  <2>2. content \in Content /\ content.there
    BY <1>1, WrittenType
  <2>3. file[path].there
    BY <1>3 DEF SaveClose, Inv, LinkedIsThere
  <2> DEFINE a == Save(s, content = Saved(s))
  <2>4. a \in Saves /\ Left(a, content)
    BY <1>1, SaveTypes DEF Left
  <2> HIDE DEF path, a, s
  <2>5. TypeInv'
    BY <1>1, <2>1, <2>2, <2>4, OverKeeps DEF Inv, TypeInv, a
  <2>6. LinkedIsThere' /\ Loaded' /\ News'
    BY <1>1, <2>1, <2>2, <2>3, OverKeeps DEF Inv, TypeInv, LinkedIsThere, Loaded, News
  <2>7. Authored'
    BY <1>1, <2>1, <2>4 DEF Inv, TypeInv, Authored, a
  <2> QED BY <2>5, <2>6, <2>7 DEF Inv
<1> QED BY <1>2, <1>3

\* The user changes, removes or replaces a file.
LEMMA UserInv ==
  ASSUME Inv, User
  PROVE  Inv'
<1>1. PICK path \in Path :
        \E content \in {Absent, Shipped} \cup
                       (IF file[path].there THEN OneChange(file[path]) ELSE {}) :
          Edit(path, content)
  BY DEF User
<1>0. PICK content \in {Absent, Shipped} \cup
                       (IF file[path].there THEN OneChange(file[path]) ELSE {}) :
        Edit(path, content)
  BY <1>1
<1>2. content \in Content
  BY FileTypes, ChangeType, TomlConfigAssumption DEF Inv, TypeInv
<1>3. /\ file' = [file EXCEPT ![path] = content]
      /\ author' = [author EXCEPT ![path] = Nobody]
      /\ linked' = [p \in Proc |-> linked[p] /\ config_file_path_[p] # path]
      /\ IF content.there THEN Overtake(path) ELSE overtaken' = overtaken
      /\ edits < MaxEdits /\ edits' = edits + 1
      /\ UNCHANGED <<pc, config_file_path_, settings, source>>
  BY <1>0 DEF Edit
<1>4. TypeInv'
  <2>1. file' \in [Path -> Content] /\ author' \in [Path -> Saves]
    BY <1>2, <1>3, SaveTypes DEF Inv, TypeInv
  <2>2. linked' \in [Proc -> BOOLEAN]
    BY <1>3 DEF Inv, TypeInv
  <2>3. overtaken' \in [Proc -> BOOLEAN]
    BY <1>3 DEF Inv, TypeInv, Overtake
  <2>4. edits' \in 0 .. MaxEdits
    BY <1>3, TomlConfigAssumption DEF Inv, TypeInv
  <2> QED BY <1>3, <2>1, <2>2, <2>3, <2>4 DEF Inv, TypeInv
<1>5. LinkedIsThere'
  BY <1>3 DEF Inv, TypeInv, LinkedIsThere
<1>6. Loaded'
  BY <1>3 DEF Inv, TypeInv, Loaded
<1>7. News'
  BY <1>3 DEF Inv, TypeInv, News, Overtake
<1>8. Authored'
  BY <1>3, SaveTypes DEF Inv, TypeInv, Authored
<1> QED BY <1>4, <1>5, <1>6, <1>7, <1>8 DEF Inv

\* Every step keeps the invariant.
LEMMA InvNext == Inv /\ [Next]_vars => Inv'
<1> SUFFICES ASSUME Inv, [Next]_vars PROVE Inv'
  OBVIOUS
<1>1. CASE Program
  BY <1>1, GetInstanceInv, ConstructInv, DestructInv, SaveOpenInv, SaveCloseInv, CrashInv
     DEF Program
<1>2. CASE User
  BY <1>2, UserInv
<1>3. CASE UNCHANGED vars
  BY <1>3 DEF vars, Inv, TypeInv, LinkedIsThere, Loaded, News, Authored
<1> QED BY <1>1, <1>2, <1>3 DEF Next

\* The invariant holds in every reachable state.
THEOREM Invariant == Spec => []Inv
BY InvInit, InvNext, PTL DEF Spec

-----------------------------------------------------------------------------
(* What it shows.                                                          *)

\* Every variable keeps its type: no setting is ever left indeterminate, and none
\* holds more than its type can (loadFromFile, config.cpp), whatever the files
\* contain.
THEOREM Types == Spec => []TypeOK
<1>1. Inv => TypeOK
  BY TomlConfigAssumption DEF Inv, TypeInv, LinkedIsThere, TypeOK, State, Setting, Content
<1> QED BY Invariant, <1>1, PTL

\* A process that loads a file as a save left it runs with the settings of that save
\* if it was whole, and if not with those or the defaults, in all settings but one
\* (saveToFile and loadFromFile, config.cpp).
THEOREM Restarts == Spec => []RestartKeepsSettings
<1>1. Inv => RestartKeepsSettings
  <2> SUFFICES ASSUME Inv, NEW p \in Proc, source[p].saved,
                      pc[p] \in {"running", "saving", "writing"}
               PROVE  /\ source[p].whole => settings[p] = source[p].at
                      /\ \A f, g \in Strange(p) : f = g
    BY DEF RestartKeepsSettings
  <2>1. PICK content \in Content :
          Left(source[p], content) /\ settings[p] = loadFromFile(content)
    BY DEF Inv, Loaded
  <2>2. source[p].at \in Setting
    BY DEF Inv, TypeInv, Saves
  <2>3. source[p].whole => settings[p] = source[p].at
    BY <2>1, <2>2, SavedLoads DEF Left
  <2>4. \A f, g \in Strange(p) : f = g
    BY <2>1, <2>2, WrittenLoads DEF Left, Strange
  <2> QED BY <2>3, <2>4
<1> QED BY Invariant, <1>1, PTL

\* The program changes a file only while it writes one it made, or one that
\* appeared after the destructor had found none.
THEOREM FilesKept == Spec => FilesAreKept
<1>1. ASSUME Inv, Inv', [Next]_vars, NEW x \in Path,
             file[x].there, file'[x] # file[x], edits' = edits
      PROVE  \E p \in Proc :
               /\ config_file_path_[p] = x
               /\ (pc[p] = "saving" /\ overtaken[p]) \/ (pc[p] = "writing" /\ linked[p])
  <2>1. ASSUME User PROVE FALSE
    BY <1>1, <2>1 DEF User, Edit, Inv, TypeInv
  <2>2. PICK p \in Proc : SaveOpen(p) \/ SaveClose(p)
    BY <1>1, <2>1 DEF Next, Program, vars, getInstance, Construct, Destruct, Crash
  <2>3. CASE SaveOpen(p)
    BY <1>1, <2>3 DEF SaveOpen, Inv, TypeInv, News
  <2>4. CASE SaveClose(p)
    BY <1>1, <2>4 DEF SaveClose, Inv, TypeInv
  <2> QED BY <2>2, <2>3, <2>4
<1> DEFINE Justified == \A x \in Path :
       file[x].there /\ file'[x] # file[x] /\ edits' = edits =>
         \E p \in Proc :
           /\ config_file_path_[p] = x
           /\ (pc[p] = "saving" /\ overtaken[p]) \/ (pc[p] = "writing" /\ linked[p])
<1>2. Inv /\ Inv' /\ [Next]_vars => [Justified]_vars
  BY <1>1
<1> QED BY Invariant, <1>2, PTL DEF Spec, FilesAreKept
===============================================================================
