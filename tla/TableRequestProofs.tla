------------------------ MODULE TableRequestProofs -------------------------
(***************************************************************************)
(* The adapters a C caller holds find their functions, and the prefixes    *)
(* callers are given agree, for any threads, tables and room.              *)
(*                                                                         *)
(* A once-cell, once set, keeps its value: its initialiser is run by one   *)
(* thread and only while it is unset.  So it is enough that the targets of *)
(* a cell's tables are stored when the cell is set, or when a word of such *)
(* a table is handed out, and that every word a caller has is the one its  *)
(* cell says.                                                              *)
(***************************************************************************)
EXTENDS TableRequest, TLAPS

Cells == {Unset} \cup [state : {"ready", "failed"}, present : SUBSET Functions]

TypeOK ==
    /\ cell \in [Layers -> [Libraries -> Cells]]
    /\ owner \in [Layers -> [Libraries -> Threads \cup {NoThread}]]
    /\ at \in [Threads -> Layers \cup {"idle"}]
    /\ request \in [Threads -> Requests \cup {NoRequest}]
    /\ \A t \in Threads : at[t] \in Layers => request[t] \in Requests /\ request[t].kind \in Kinds
    /\ buffer \in [Threads -> [1..MaxWords -> {"untouched", "meta", "null", "function", "adapter"}]]

\* An initialiser runs only while its cell is unset.
OwnersUnset ==
    \A l \in Layers, b \in Libraries : owner[l][b] # NoThread => cell[l][b] = Unset

\* A validated table is the unvalidated one, found complete.
CoreBelow ==
    \A b \in Libraries : cell["core"][b].state = "ready" => cell["api"][b] = cell["core"][b]

\* The targets of the adapters of a cell that is set are stored.
CellsStored ==
    \A b \in Libraries :
        /\ cell["api"][b].state = "ready" =>
               Stored(b, "build", cell["api"][b].present) \subseteq targets
        /\ cell["core"][b].state = "ready" =>
               Stored(b, "validate", cell["core"][b].present) \subseteq targets

CellOf(k) == cell[Layer[k]][Library[k]]

\* Word i of t's buffer is the word of its table, and was given.
Given(t, i) ==
    /\ request[t] \in Requests /\ request[t].kind \in Kinds
    /\ i <= request[t].room
    /\ CellOf(request[t].kind).state = "ready"
    /\ i \in DOMAIN Table(request[t].kind, CellOf(request[t].kind).present)
    /\ buffer[t][i] = Table(request[t].kind, CellOf(request[t].kind).present)[i]
    /\ Produced(request[t].kind, CellOf(request[t].kind).present) \subseteq targets

WordsGiven ==
    \A t \in Threads : \A i \in 1..MaxWords : buffer[t][i] = "untouched" \/ Given(t, i)

IInv == TypeOK /\ OwnersUnset /\ CoreBelow /\ CellsStored /\ WordsGiven

\* Cells keep what they hold and targets are not removed.
Grows ==
    /\ targets \subseteq targets'
    /\ \A l \in Layers, b \in Libraries : cell[l][b] # Unset => cell'[l][b] = cell[l][b]

\* Every table has a layer and a library.
LEMMA KindsTyped == \A k \in Kinds : Layer[k] \in Layers /\ Library[k] \in Libraries
BY TablesAssumption DEF Libraries

\* What a library offers are functions.
LEMMA FunctionsOfTyped == \A b \in Libraries : FunctionsOf(b) \subseteq Functions
BY DEF FunctionsOf, Functions

\* A failed cell and one that is ready with functions of a library are cells,
\* and only an unset one says it is unset.
LEMMA CellsTyped ==
    /\ Unset \in Cells /\ Failed \in Cells
    /\ \A c \in Cells : c # Unset => c.state \in {"ready", "failed"}
    /\ \A b \in Libraries : \A present \in SUBSET FunctionsOf(b) : Ready(present) \in Cells
BY FunctionsOfTyped DEF Cells, Unset, Failed, Ready

\* At first every cell is unset and no buffer is touched.
LEMMA InitHolds == Init => IInv
<1> SUFFICES ASSUME Init PROVE IInv
  OBVIOUS
<1> USE DEF Init
<1>1. TypeOK BY CellsTyped DEF TypeOK, Untouched, Layers
<1>2. OwnersUnset BY DEF OwnersUnset
<1>3. CoreBelow BY DEF CoreBelow, Unset, Layers
<1>4. CellsStored BY DEF CellsStored, Unset, Layers
<1>5. WordsGiven BY DEF WordsGiven, Untouched
<1> QED BY <1>1, <1>2, <1>3, <1>4, <1>5 DEF IInv

\* Words that were given stay as they are while cells and targets only grow.
LEMMA GrowthKeepsWords ==
    ASSUME IInv, Grows, UNCHANGED <<request, buffer>>
    PROVE  WordsGiven'
<1> SUFFICES ASSUME NEW t \in Threads, NEW i \in 1..MaxWords, buffer[t][i] # "untouched"
             PROVE  Given(t, i)'
  BY DEF WordsGiven
<1>1. Given(t, i) BY DEF IInv, WordsGiven
<1>2. CellOf(request[t].kind)' = CellOf(request[t].kind)
  <2>1. request[t].kind \in Kinds /\ cell[Layer[request[t].kind]][Library[request[t].kind]] # Unset
    <3>1. request[t].kind \in Kinds /\ CellOf(request[t].kind).state = "ready"
      BY <1>1 DEF Given
    <3>2. CellOf(request[t].kind) # Unset BY <3>1 DEF Unset
    <3> QED BY <3>1, <3>2 DEF CellOf
  <2> QED BY <2>1, KindsTyped DEF CellOf, Grows
<1> QED BY <1>1, <1>2 DEF Given, Grows, Produced, Table, Word, Stored

\* A request starts with an untouched buffer, and a finished one leaves none.
LEMMA AskKeeps == ASSUME IInv, NEW t \in Threads, Ask(t) \/ Finish(t) PROVE IInv'
<1> USE DEF IInv
<1>1. TypeOK'
  <2>1. Untouched \in [1..MaxWords -> {"untouched", "meta", "null", "function", "adapter"}]
    BY DEF Untouched
  <2>2. UNCHANGED <<cell, owner>>
        /\ buffer' \in [Threads -> [1..MaxWords ->
               {"untouched", "meta", "null", "function", "adapter"}]]
    BY <2>1 DEF Ask, Finish, TypeOK
  <2>3. CASE Finish(t) BY <2>2, <2>3 DEF Finish, TypeOK, Layers
  <2>4. CASE Ask(t) /\ UNCHANGED <<request, at>> BY <2>2, <2>4 DEF TypeOK
  <2>5. CASE Ask(t) /\ ~ UNCHANGED <<request, at>>
    <3>1. PICK r \in Requests :
              /\ ~ Refused(r)
              /\ request' = [request EXCEPT ![t] = r]
              /\ at' = [at EXCEPT ![t] = Layer[r.kind]]
      BY <2>5 DEF Ask
    <3>2. r.kind \in Kinds BY <3>1 DEF Refused, Requests
    <3> QED BY <2>2, <3>1, <3>2, KindsTyped DEF TypeOK
  <2> QED BY <2>3, <2>4, <2>5
<1>2. OwnersUnset' BY DEF Ask, Finish, OwnersUnset
<1>3. CoreBelow' BY DEF Ask, Finish, CoreBelow
<1>4. CellsStored' BY DEF Ask, Finish, CellsStored
<1>5. WordsGiven'
  <2> SUFFICES ASSUME NEW u \in Threads, NEW i \in 1..MaxWords
               PROVE  buffer'[u][i] = "untouched" \/ Given(u, i)'
    BY DEF WordsGiven
  <2>1. CASE u = t BY <2>1 DEF Ask, Finish, TypeOK, Untouched
  <2>2. CASE u # t
    <3>1. /\ buffer'[u] = buffer[u] /\ request'[u] = request[u]
          /\ UNCHANGED <<cell, targets>>
      BY <2>2 DEF Ask, Finish, TypeOK
    <3>2. buffer[u][i] = "untouched" \/ Given(u, i) BY DEF WordsGiven
    <3> QED BY <3>1, <3>2 DEF Given, CellOf
  <2> QED BY <2>1, <2>2
<1> QED BY <1>1, <1>2, <1>3, <1>4, <1>5

\* Entering an initialiser changes no cell.
LEMMA EnterKeeps == ASSUME IInv, NEW t \in Threads, Enter(t) PROVE IInv'
<1> USE DEF IInv, Enter
<1>1. TypeOK' BY DEF TypeOK, Layers
<1>2. OwnersUnset' BY DEF OwnersUnset, TypeOK
<1>3. CoreBelow' BY DEF CoreBelow
<1>4. CellsStored' BY DEF CellsStored
<1>5. Grows BY DEF Grows
<1>6. WordsGiven' BY <1>5, GrowthKeepsWords
<1> QED BY <1>1, <1>2, <1>3, <1>4, <1>6

\* Setting an owned cell to c leaves the others, and only grows.
LEMMA KeepGrows ==
    ASSUME IInv, NEW t \in Threads, NEW l \in Layers, NEW c,
           request[t].kind \in Kinds, owner[l][Lib(t)] = t, Keep(t, l, c),
           c \in Cells,
           targets \subseteq targets'
    PROVE  /\ Grows /\ OwnersUnset'
           /\ cell[l][Lib(t)] = Unset /\ Lib(t) \in Libraries
           /\ \A m \in Layers, b \in Libraries :
                  cell'[m][b] = IF m = l /\ b = Lib(t) THEN c ELSE cell[m][b]
           /\ cell' \in [Layers -> [Libraries -> Cells]]
           /\ owner' \in [Layers -> [Libraries -> Threads \cup {NoThread}]]
<1> USE DEF IInv, TypeOK
<1>1. Lib(t) \in Libraries BY KindsTyped DEF Lib
<1>2. t # NoThread BY TablesAssumption
<1>3. cell[l][Lib(t)] = Unset BY <1>1, <1>2 DEF OwnersUnset
<1>4. \A m \in Layers, b \in Libraries :
          cell'[m][b] = IF m = l /\ b = Lib(t) THEN c ELSE cell[m][b]
  BY <1>1 DEF Keep
<1>5. \A m \in Layers, b \in Libraries :
          owner'[m][b] = IF m = l /\ b = Lib(t) THEN NoThread ELSE owner[m][b]
  BY <1>1 DEF Keep
<1>6. OwnersUnset'
  <2> SUFFICES ASSUME NEW m \in Layers, NEW b \in Libraries, owner'[m][b] # NoThread
               PROVE  cell'[m][b] = Unset
    BY DEF OwnersUnset
  <2>1. ~ (m = l /\ b = Lib(t)) BY <1>5
  <2>2. owner[m][b] # NoThread BY <1>5, <2>1
  <2>3. cell[m][b] = Unset BY <2>2 DEF OwnersUnset
  <2>4. cell'[m][b] = cell[m][b] BY <1>4, <2>1
  <2> QED BY <2>3, <2>4
<1>7. Grows BY <1>3, <1>4 DEF Grows
<1>8. /\ cell' \in [Layers -> [Libraries -> Cells]]
      /\ owner' \in [Layers -> [Libraries -> Threads \cup {NoThread}]]
  BY <1>1 DEF Keep
<1> QED BY <1>1, <1>3, <1>4, <1>6, <1>7, <1>8

\* An unvalidated table is built: nothing was validated before it.
LEMMA BuildKeeps == ASSUME IInv, NEW t \in Threads, Build(t) PROVE IInv'
<1>1. at[t] = "api" /\ owner["api"][Lib(t)] = t /\ UNCHANGED <<request, at, buffer>>
  BY DEF Build
<1>2. request[t].kind \in Kinds /\ "api" \in Layers /\ "core" \in Layers /\ Lib(t) \in Libraries
  BY <1>1, KindsTyped DEF IInv, TypeOK, Layers, Lib
<1>3. PICK c \in Cells :
          /\ Keep(t, "api", c)
          /\ targets \subseteq targets'
          /\ c.state = "ready" => Stored(Lib(t), "build", c.present) \subseteq targets'
  <2>1. CASE Keep(t, "api", Failed) /\ UNCHANGED targets
    BY <2>1, CellsTyped DEF Failed
  <2>2. ASSUME NEW present \in SUBSET FunctionsOf(Lib(t)),
               Keep(t, "api", Ready(present)),
               targets' = targets \cup Stored(Lib(t), "build", present)
        PROVE  \E c \in Cells :
                   /\ Keep(t, "api", c)
                   /\ targets \subseteq targets'
                   /\ c.state = "ready" => Stored(Lib(t), "build", c.present) \subseteq targets'
    <3>1. Ready(present) \in Cells BY <1>2, CellsTyped
    <3>2. Ready(present).present = present BY DEF Ready
    <3> QED BY <2>2, <3>1, <3>2
  <2> QED BY <2>1, <2>2 DEF Build
<1>4. /\ Grows /\ OwnersUnset'
      /\ cell["api"][Lib(t)] = Unset
      /\ \A m \in Layers, b \in Libraries :
             cell'[m][b] = IF m = "api" /\ b = Lib(t) THEN c ELSE cell[m][b]
      /\ cell' \in [Layers -> [Libraries -> Cells]]
      /\ owner' \in [Layers -> [Libraries -> Threads \cup {NoThread}]]
  BY <1>1, <1>2, <1>3, KeepGrows
<1>5. TypeOK' BY <1>1, <1>4 DEF IInv, TypeOK
<1>6. CoreBelow'
  <2> SUFFICES ASSUME NEW b \in Libraries, cell'["core"][b].state = "ready"
               PROVE  cell'["api"][b] = cell'["core"][b]
    BY DEF CoreBelow
  <2>1. cell'["core"][b] = cell["core"][b] BY <1>2, <1>4
  <2>2. cell["api"][b] = cell["core"][b] BY <2>1 DEF IInv, CoreBelow
  <2>3. cell["api"][b] # Unset BY <2>1, <2>2 DEF Unset
  <2> QED BY <1>2, <1>4, <2>1, <2>2, <2>3
<1>7. CellsStored'
  <2> SUFFICES ASSUME NEW b \in Libraries
               PROVE  /\ cell'["api"][b].state = "ready" =>
                             Stored(b, "build", cell'["api"][b].present) \subseteq targets'
                      /\ cell'["core"][b].state = "ready" =>
                             Stored(b, "validate", cell'["core"][b].present) \subseteq targets'
    BY DEF CellsStored, Stored
  <2>1. cell'["core"][b] = cell["core"][b] BY <1>2, <1>4
  <2>2. b # Lib(t) => cell'["api"][b] = cell["api"][b] BY <1>2, <1>4
  <2>3. b = Lib(t) => cell'["api"][b] = c BY <1>2, <1>4
  <2>4. CASE b = Lib(t) BY <1>3, <2>1, <2>3, <2>4 DEF IInv, CellsStored
  <2>5. CASE b # Lib(t) BY <1>3, <2>1, <2>2, <2>5 DEF IInv, CellsStored
  <2> QED BY <2>4, <2>5
<1>8. WordsGiven' BY <1>1, <1>4, GrowthKeepsWords
<1> QED BY <1>4, <1>5, <1>6, <1>7, <1>8 DEF IInv

\* A compiler's state is built: the drivers' cells are others.
LEMMA BuildCompilerKeeps == ASSUME IInv, NEW t \in Threads, BuildCompiler(t) PROVE IInv'
<1>1. /\ at[t] = "rtc" /\ owner["rtc"][Lib(t)] = t
      /\ UNCHANGED <<targets, request, at, buffer>>
  BY DEF BuildCompiler
<1>2. request[t].kind \in Kinds /\ {"api", "core", "rtc"} \subseteq Layers /\ Lib(t) \in Libraries
  BY <1>1, KindsTyped DEF IInv, TypeOK, Layers, Lib
<1>3. PICK c \in Cells : Keep(t, "rtc", c)
  BY <1>2, CellsTyped DEF BuildCompiler
<1>4. /\ Grows /\ OwnersUnset'
      /\ \A m \in Layers, b \in Libraries :
             cell'[m][b] = IF m = "rtc" /\ b = Lib(t) THEN c ELSE cell[m][b]
      /\ cell' \in [Layers -> [Libraries -> Cells]]
      /\ owner' \in [Layers -> [Libraries -> Threads \cup {NoThread}]]
  BY <1>1, <1>2, <1>3, KeepGrows
<1>5. TypeOK' BY <1>1, <1>4 DEF IInv, TypeOK
<1>6. \A b \in Libraries : cell'["api"][b] = cell["api"][b] /\ cell'["core"][b] = cell["core"][b]
  BY <1>2, <1>4
<1>7. CoreBelow' BY <1>6 DEF IInv, CoreBelow
<1>8. CellsStored' BY <1>1, <1>6 DEF IInv, CellsStored, Stored
<1>9. WordsGiven' BY <1>1, <1>4, GrowthKeepsWords
<1> QED BY <1>4, <1>5, <1>7, <1>8, <1>9 DEF IInv

\* A table is validated: the cell is given the value of the one below.
LEMMA ValidateKeeps == ASSUME IInv, NEW t \in Threads, Validate(t) PROVE IInv'
<1>1. /\ at[t] = "api" /\ owner["core"][Lib(t)] = t
      /\ at' = [at EXCEPT ![t] = "core"]
      /\ UNCHANGED <<request, buffer>>
  BY DEF Validate
<1>2. request[t].kind \in Kinds /\ {"api", "core"} \subseteq Layers /\ Lib(t) \in Libraries
  BY <1>1, KindsTyped DEF IInv, TypeOK, Layers, Lib
<1>3. PICK c \in Cells :
          /\ Keep(t, "core", c)
          /\ targets \subseteq targets'
          /\ c.state = "ready" => /\ c = cell["api"][Lib(t)]
                                  /\ Stored(Lib(t), "validate", c.present) \subseteq targets'
  <2>1. CASE Keep(t, "core", Failed) /\ UNCHANGED targets
    BY <2>1, CellsTyped DEF Failed
  <2>2. CASE /\ Keep(t, "core", cell["api"][Lib(t)])
             /\ targets' = targets \cup Stored(Lib(t), "validate", cell["api"][Lib(t)].present)
    <3>1. cell["api"][Lib(t)] \in Cells BY <1>2 DEF IInv, TypeOK
    <3> QED BY <2>2, <3>1
  <2> QED BY <2>1, <2>2 DEF Validate
<1>4. /\ Grows /\ OwnersUnset'
      /\ \A m \in Layers, b \in Libraries :
             cell'[m][b] = IF m = "core" /\ b = Lib(t) THEN c ELSE cell[m][b]
      /\ cell' \in [Layers -> [Libraries -> Cells]]
      /\ owner' \in [Layers -> [Libraries -> Threads \cup {NoThread}]]
  BY <1>1, <1>2, <1>3, KeepGrows
<1>5. TypeOK' BY <1>1, <1>2, <1>4 DEF IInv, TypeOK
<1>6. \A b \in Libraries :
          /\ cell'["api"][b] = cell["api"][b]
          /\ cell'["core"][b] = IF b = Lib(t) THEN c ELSE cell["core"][b]
  BY <1>2, <1>4
<1>7. CoreBelow' BY <1>3, <1>6 DEF IInv, CoreBelow
<1>8. CellsStored'
  <2> SUFFICES ASSUME NEW b \in Libraries
               PROVE  /\ cell'["api"][b].state = "ready" =>
                             Stored(b, "build", cell'["api"][b].present) \subseteq targets'
                      /\ cell'["core"][b].state = "ready" =>
                             Stored(b, "validate", cell'["core"][b].present) \subseteq targets'
    BY DEF CellsStored, Stored
  <2>1. CASE b = Lib(t) BY <1>3, <1>6, <2>1 DEF IInv, CellsStored
  <2>2. CASE b # Lib(t) BY <1>3, <1>6, <2>2 DEF IInv, CellsStored
  <2> QED BY <2>1, <2>2
<1>9. WordsGiven' BY <1>1, <1>4, GrowthKeepsWords
<1> QED BY <1>4, <1>5, <1>7, <1>8, <1>9 DEF IInv

\* A table's words are words.
LEMMA TableTyped ==
    ASSUME NEW k \in Kinds, NEW present, NEW i \in DOMAIN Table(k, present)
    PROVE  Table(k, present)[i] \in {"meta", "null", "function", "adapter"}
BY DEF Table, Word

\* An answer gives the caller words of its table, their targets stored.
LEMMA AnswerKeeps == ASSUME IInv, NEW t \in Threads, Answer(t) PROVE IInv'
<1> DEFINE k == request[t].kind
           kept == CellOf(k)
           table == Table(k, kept.present)
<1>1. /\ at[t] \in Layers /\ at[t] = Layer[k] /\ kept # Unset
      /\ at' = [at EXCEPT ![t] = "idle"]
      /\ UNCHANGED <<cell, owner, request>>
  BY DEF Answer, Lib, CellOf
<1>2. request[t] \in Requests /\ k \in Kinds /\ Layer[k] \in Layers /\ Library[k] \in Libraries
  BY <1>1, KindsTyped DEF IInv, TypeOK
<1>3. kept.state \in {"ready", "failed"}
  <2>1. kept \in Cells BY <1>2 DEF IInv, TypeOK, CellOf
  <2> QED BY <1>1, <2>1, CellsTyped
<1>4. targets \subseteq targets' BY DEF Answer
<1>5. Grows BY <1>1, <1>4 DEF Grows
<1>6. CASE kept.state = "failed"
  <2>1. UNCHANGED <<targets, buffer>> BY <1>1, <1>6 DEF Answer, Lib, CellOf
  <2>2. TypeOK' BY <1>1, <2>1 DEF IInv, TypeOK, Layers
  <2>3. OwnersUnset' /\ CoreBelow' /\ CellsStored'
    BY <1>1, <2>1 DEF IInv, OwnersUnset, CoreBelow, CellsStored
  <2>4. WordsGiven' BY <1>1, <1>5, <2>1, GrowthKeepsWords
  <2> QED BY <2>2, <2>3, <2>4 DEF IInv
<1>7. CASE kept.state # "failed"
  <2>1. /\ targets' = targets \cup Produced(k, kept.present)
        /\ buffer' = [buffer EXCEPT ![t] =
               [i \in DOMAIN @ |->
                   IF i \in Written(request[t].room, table) THEN table[i] ELSE @[i]]]
    BY <1>1, <1>7 DEF Answer, Lib, CellOf
  <2>2. \A u \in Threads : u # t => buffer'[u] = buffer[u]
    BY <2>1 DEF IInv, TypeOK
  <2>3. \A i \in 1..MaxWords : buffer'[t][i] =
            IF i \in Written(request[t].room, table) THEN table[i] ELSE buffer[t][i]
    BY <2>1 DEF IInv, TypeOK
  <2>4. buffer' \in [Threads -> [1..MaxWords ->
            {"untouched", "meta", "null", "function", "adapter"}]]
    <3>1. \A i \in Written(request[t].room, table) :
              table[i] \in {"meta", "null", "function", "adapter"}
      BY <1>2, TableTyped DEF Written
    <3> QED BY <2>1, <3>1 DEF IInv, TypeOK
  <2>5. TypeOK' BY <1>1, <2>4 DEF IInv, TypeOK, Layers
  <2>6. OwnersUnset' /\ CoreBelow' BY <1>1 DEF IInv, OwnersUnset, CoreBelow
  <2>7. CellsStored' BY <1>1, <1>4 DEF IInv, CellsStored, Stored
  <2>8. kept.state = "ready" /\ kept' = kept
    BY <1>1, <1>3, <1>7 DEF CellOf
  <2>9. WordsGiven'
    <3> SUFFICES ASSUME NEW u \in Threads, NEW i \in 1..MaxWords, buffer'[u][i] # "untouched"
                 PROVE  Given(u, i)'
      BY DEF WordsGiven
    <3>1. CASE u = t /\ i \in Written(request[t].room, table)
      <4>1. i \in DOMAIN table /\ i <= request[t].room /\ buffer'[t][i] = table[i]
        BY <2>3, <3>1 DEF Written
      <4>2. Produced(k, kept.present) \subseteq targets' BY <2>1
      <4>3. Produced(k, kept.present)' = Produced(k, kept.present) /\ table' = table
        BY <1>1, <2>8 DEF Produced, Stored, Table, Word
      <4> HIDE DEF kept, table
      <4>4. k' = k /\ request'[t] = request[t] BY <1>1
      <4> QED BY <1>2, <2>8, <3>1, <4>1, <4>2, <4>3, <4>4 DEF Given, kept, table
    <3>2. CASE ~ (u = t /\ i \in Written(request[t].room, table))
      <4>1. buffer'[u][i] = buffer[u][i] BY <2>2, <2>3, <3>2
      <4>2. Given(u, i) BY <4>1 DEF IInv, WordsGiven
      <4> QED BY <1>1, <1>4, <4>1, <4>2 DEF Given, CellOf, Produced, Table, Word, Stored
    <3> QED BY <3>1, <3>2
  <2> QED BY <2>5, <2>6, <2>7, <2>9 DEF IInv
<1> QED BY <1>3, <1>6, <1>7

\* Every step keeps the inductive invariant.
LEMMA NextKeeps == IInv /\ [Next]_vars => IInv'
<1> SUFFICES ASSUME IInv, [Next]_vars PROVE IInv'
  OBVIOUS
<1>1. CASE UNCHANGED vars
  <2> USE <1>1 DEF vars, IInv
  <2>1. TypeOK' BY DEF TypeOK
  <2>2. OwnersUnset' /\ CoreBelow' BY DEF OwnersUnset, CoreBelow
  <2>3. CellsStored' BY DEF CellsStored, Stored
  <2>4. WordsGiven' BY GrowthKeepsWords DEF Grows
  <2> QED BY <2>1, <2>2, <2>3, <2>4
<1>2. CASE Next
  BY <1>2, AskKeeps, EnterKeeps, BuildKeeps, BuildCompilerKeeps, ValidateKeeps, AnswerKeeps DEF Next
<1> QED BY <1>1, <1>2

\* In every reachable state an initialiser owns only an unset cell, a validated
\* table is the unvalidated one, the targets of a set cell are stored, and each
\* word a caller holds is the one its table's cell gives.
THEOREM Invariant == Spec => []IInv
BY InitHolds, NextKeeps, PTL DEF Spec

\* A word of a table that says adapter has a function behind it.
LEMMA AdapterWord ==
    ASSUME NEW k \in Kinds, NEW present, NEW i \in 2..MaxWords,
           i \in DOMAIN Table(k, present), Table(k, present)[i] = "adapter"
    PROVE  /\ i - 1 \in DOMAIN Entries[k] /\ i - 1 \in 1..MaxWords
           /\ Entries[k][i - 1] \in present
           /\ Home[k][i - 1] \in Homes \ {"direct"}
<1>1. Entries[k] \in Seq(Functions) /\ MaxWords \in Nat BY TablesAssumption
<1>2. DOMAIN Entries[k] = 1..Len(Entries[k]) /\ Len(Entries[k]) \in Nat BY <1>1
<1>3. i \in 1..Len(Entries[k]) + 1 BY DEF Table
<1>4. Table(k, present)[i] = Word(k, i - 1, present) BY <1>1, <1>3 DEF Table
<1>5. i - 1 \in DOMAIN Entries[k] /\ i - 1 \in 1..MaxWords BY <1>1, <1>2, <1>3
<1>6. Entries[k][i - 1] \in present /\ Home[k][i - 1] # "direct" BY <1>4 DEF Word
<1> QED BY <1>5, <1>6, TablesAssumption

\* The targets of the words a caller holds are where its adapters look.
LEMMA InvReaches == IInv => AdaptersReachTheirTargets
<1> SUFFICES ASSUME IInv, NEW t \in Threads, NEW i \in 2..MaxWords, buffer[t][i] = "adapter"
             PROVE  Reached(request[t].kind, i - 1)
  BY DEF AdaptersReachTheirTargets
<1> DEFINE k == request[t].kind
           kept == CellOf(k)
           j == i - 1
<1>1. i \in 1..MaxWords BY TablesAssumption
<1>2. Given(t, i) BY <1>1 DEF IInv, WordsGiven
<1>3. k \in Kinds /\ kept.state = "ready" /\ Produced(k, kept.present) \subseteq targets
  BY <1>2 DEF Given
<1>4. i \in DOMAIN Table(k, kept.present) /\ Table(k, kept.present)[i] = "adapter"
  BY <1>2 DEF Given
<1>5. /\ j \in DOMAIN Entries[k] /\ j \in 1..MaxWords
      /\ Entries[k][j] \in kept.present
      /\ Home[k][j] \in Homes \ {"direct"}
  BY <1>3, <1>4, AdapterWord
<1>6. CASE Home[k][j] = "publish" BY <1>3, <1>5, <1>6 DEF Reached, CellOf
<1>7. CASE Home[k][j] # "publish"
  <2>1. Layer[k] = "core" /\ Home[k][j] \in {"build", "validate", "table"}
    BY <1>3, <1>5, <1>7, TablesAssumption DEF Layers, Homes
  <2>2. kept = cell["core"][Library[k]] /\ Library[k] \in Libraries
    BY <1>3, <2>1, KindsTyped DEF CellOf
  <2>3. <<k, j>> \in Stored(Library[k], Home[k][j], kept.present)
    BY <1>3, <1>5 DEF Stored
  <2>4. cell["api"][Library[k]] = kept BY <1>3, <2>2 DEF IInv, CoreBelow
  <2>5. Stored(Library[k], Home[k][j], kept.present) \subseteq targets
    BY <1>3, <2>1, <2>2, <2>4 DEF IInv, CellsStored, Produced
  <2> QED BY <1>7, <2>3, <2>5 DEF Reached
<1> QED BY <1>6, <1>7

\* For any number of callers and any tables, an adapter in a caller's hands finds
\* the function it calls (write_table, common_table, ocgpu-rtc's load_common).
THEOREM AdaptersReachAlways == Spec => []AdaptersReachTheirTargets
BY Invariant, InvReaches, PTL

\* A caller gets the words it has room for and no other; and two callers of one
\* table, or one that asks for the prefix to learn the size and asks again, are
\* told the same, so a larger buffer only adds words to a smaller one.
PrefixesAgree ==
    \A t, u \in Threads :
        request[t] # NoRequest /\ request[u] # NoRequest
            /\ request[t].kind = request[u].kind =>
        \A i \in 1..MaxWords :
            /\ i > request[t].room => buffer[t][i] = "untouched"
            /\ buffer[t][i] # "untouched" /\ buffer[u][i] # "untouched" =>
                   buffer[t][i] = buffer[u][i]

\* Two callers' words of one table come from one cell.
LEMMA InvAgrees == IInv => PrefixesAgree
<1> SUFFICES ASSUME IInv, NEW t \in Threads, NEW u \in Threads,
                    request[t] # NoRequest, request[u] # NoRequest,
                    request[t].kind = request[u].kind, NEW i \in 1..MaxWords
             PROVE  /\ i > request[t].room => buffer[t][i] = "untouched"
                    /\ buffer[t][i] # "untouched" /\ buffer[u][i] # "untouched" =>
                           buffer[t][i] = buffer[u][i]
  BY DEF PrefixesAgree
<1>1. buffer[t][i] # "untouched" => Given(t, i) BY DEF IInv, WordsGiven
<1>2. buffer[u][i] # "untouched" => Given(u, i) BY DEF IInv, WordsGiven
<1>3. i > request[t].room => buffer[t][i] = "untouched"
  <2>1. Given(t, i) => request[t].room \in Nat /\ i <= request[t].room
    BY TablesAssumption DEF Given, Requests
  <2> QED BY <1>1, <2>1, TablesAssumption
<1> QED BY <1>1, <1>2, <1>3 DEF Given

\* For any number of callers with room for any prefix, a caller gets what it has
\* room for, and those of one table are told the same (write_table).
THEOREM PrefixesAgreeAlways == Spec => []PrefixesAgree
BY Invariant, InvAgrees, PTL

-----------------------------------------------------------------------------
(* No request waits in vain, and each advances.                            *)

\* A thread that runs an initialiser is at its work there, and asks about its
\* library; a request is at its own cell, or at the one below while it runs the
\* initialiser of its own.
Placed ==
    /\ \A l \in Layers, b \in Libraries, u \in Threads : owner[l][b] = u =>
           /\ at[u] = (IF l = "core" THEN "api" ELSE l)
           /\ Lib(u) = b
           /\ l = "core" => Layer[request[u].kind] = "core"
    /\ \A t \in Threads : at[t] \in Layers =>
           \/ at[t] = Layer[request[t].kind]
           \/ /\ Layer[request[t].kind] = "core" /\ at[t] = "api"
              /\ owner["core"][Lib(t)] = t

\* What a request is about, and where it is.
LEMMA Loading ==
    ASSUME IInv, NEW t \in Threads, at[t] \in Layers
    PROVE  /\ request[t] \in Requests /\ request[t].kind \in Kinds
           /\ Lib(t) \in Libraries /\ Layer[request[t].kind] \in Layers
           /\ request[t] # NoRequest /\ at[t] # "idle"
BY KindsTyped, NoRequestAssumption DEF IInv, TypeOK, Lib, Layers

\* What a step of a request leaves of the cells: the one it works at is set, or
\* comes to be its own, and no other changes.
Works(t, l) ==
    /\ l \in Layers
    /\ \A m \in Layers, b \in Libraries :
           m # l \/ b # Lib(t) => cell'[m][b] = cell[m][b] /\ owner'[m][b] = owner[m][b]
    /\ UNCHANGED request
    /\ \A u \in Threads : u # t => at'[u] = at[u]

Takes(t, l) ==
    /\ Works(t, l) /\ at[t] = l
    /\ cell[l][Lib(t)] = Unset /\ owner[l][Lib(t)] = NoThread
    /\ cell'[l][Lib(t)] = Unset /\ owner'[l][Lib(t)] = t
    /\ at'[t] = IF l = "core" THEN "api" ELSE l

Sets(t, l) ==
    /\ Works(t, l)
    /\ at[t] = IF l = "core" THEN "api" ELSE l
    /\ owner[l][Lib(t)] = t /\ cell[l][Lib(t)] = Unset
    /\ cell'[l][Lib(t)] # Unset /\ owner'[l][Lib(t)] = NoThread
    /\ at'[t] = l
    /\ l = "core" => cell["api"][Lib(t)] # Unset

\* Taking a cell.
LEMMA EnterTakes == ASSUME IInv, NEW t \in Threads, Enter(t) PROVE Takes(t, at[t])
<1>1. at[t] \in Layers BY DEF Enter
<1>2. Lib(t) \in Libraries BY <1>1, Loading
<1> QED BY <1>1, <1>2 DEF Enter, Takes, Works, IInv, TypeOK

\* Setting the cell a thread owns to anything a cell holds when it is set.
LEMMA KeepSets ==
    ASSUME IInv, NEW t \in Threads, NEW l \in Layers, NEW c, Keep(t, l, c), c # Unset,
           owner[l][Lib(t)] = t, at[t] \in Layers,
           at[t] = (IF l = "core" THEN "api" ELSE l),
           at' = [at EXCEPT ![t] = l],
           UNCHANGED request,
           l = "core" => cell["api"][Lib(t)] # Unset
    PROVE  Sets(t, l)
<1>1. Lib(t) \in Libraries BY Loading
<1>2. cell[l][Lib(t)] = Unset BY <1>1, TablesAssumption DEF IInv, OwnersUnset
<1>3. \A m \in Layers, b \in Libraries :
          /\ cell'[m][b] = IF m = l /\ b = Lib(t) THEN c ELSE cell[m][b]
          /\ owner'[m][b] = IF m = l /\ b = Lib(t) THEN NoThread ELSE owner[m][b]
  BY <1>1 DEF Keep, IInv, TypeOK
<1> QED BY <1>1, <1>2, <1>3 DEF Sets, Works, IInv, TypeOK

\* A cell that is set is not unset.
LEMMA SetIsNotUnset == Failed # Unset /\ \A present : Ready(present) # Unset
<1>1. Unset.state = "unset" /\ Failed.state = "failed" /\ \A present : Ready(present).state = "ready"
  BY DEF Unset, Failed, Ready
<1> QED BY <1>1

\* The end of each initialiser sets its cell.
LEMMA InitialisersSet ==
    ASSUME IInv, NEW t \in Threads, Build(t) \/ BuildCompiler(t) \/ Validate(t)
    PROVE  \E l \in Layers : Sets(t, l)
<1>1. "api" \in Layers /\ "rtc" \in Layers /\ "core" \in Layers
  BY DEF Layers
<1>2. CASE Build(t)
  <2>1. /\ at[t] = "api" /\ owner["api"][Lib(t)] = t /\ UNCHANGED request
        /\ at' = [at EXCEPT ![t] = "api"]
    BY <1>2 DEF Build, IInv, TypeOK
  <2>2. PICK c : Keep(t, "api", c) /\ c # Unset
    BY <1>2, SetIsNotUnset DEF Build
  <2> QED BY <1>1, <2>1, <2>2, KeepSets
<1>3. CASE BuildCompiler(t)
  <2>1. /\ at[t] = "rtc" /\ owner["rtc"][Lib(t)] = t /\ UNCHANGED request
        /\ at' = [at EXCEPT ![t] = "rtc"]
    BY <1>3 DEF BuildCompiler, IInv, TypeOK
  <2>2. PICK c : Keep(t, "rtc", c) /\ c # Unset
    BY <1>3, SetIsNotUnset DEF BuildCompiler
  <2> QED BY <1>1, <2>1, <2>2, KeepSets
<1>4. CASE Validate(t)
  <2>1. /\ at[t] = "api" /\ owner["core"][Lib(t)] = t /\ UNCHANGED request
        /\ at' = [at EXCEPT ![t] = "core"]
        /\ cell["api"][Lib(t)] # Unset
    BY <1>4 DEF Validate
  <2>2. PICK c : Keep(t, "core", c) /\ c # Unset
    BY <1>4, <2>1, SetIsNotUnset DEF Validate
  <2> QED BY <1>1, <2>1, <2>2, KeepSets
<1> QED BY <1>2, <1>3, <1>4

\* Taking a cell and setting it leave every thread placed.
LEMMA WorkPlaces ==
    ASSUME IInv, Placed, NEW t \in Threads, NEW l \in Layers, Takes(t, l) \/ Sets(t, l)
    PROVE  Placed'
<1>1. at[t] \in Layers BY DEF Takes, Sets, Layers
<1>2. Lib(t) \in Libraries /\ t # NoThread BY <1>1, Loading, TablesAssumption
<1>3. Works(t, l) BY DEF Takes, Sets
<1>4. \A u \in Threads : Lib(u)' = Lib(u)
  BY <1>3 DEF Works, Lib
<1>5. Takes(t, l) => at[t] = l /\ at'[t] = (IF l = "core" THEN "api" ELSE l)
  BY DEF Takes
<1>6. Sets(t, l) => at[t] = (IF l = "core" THEN "api" ELSE l) /\ at'[t] = l
                    /\ owner[l][Lib(t)] = t /\ owner'[l][Lib(t)] = NoThread
  BY DEF Sets
<1>7. ASSUME NEW m \in Layers, NEW b \in Libraries, NEW u \in Threads, owner'[m][b] = u
      PROVE  /\ at'[u] = (IF m = "core" THEN "api" ELSE m)
             /\ Lib(u)' = b
             /\ m = "core" => Layer[request'[u].kind] = "core"
  <2>1. CASE m = l /\ b = Lib(t)
    <3>1. Takes(t, l) /\ u = t
      BY <1>2, <1>6, <1>7, <2>1, TablesAssumption DEF Takes
    <3>2. l = "core" => Layer[request[t].kind] = "core"
      BY <1>1, <1>5, <3>1 DEF Placed
    <3> QED BY <1>3, <1>4, <1>5, <2>1, <3>1, <3>2 DEF Works
  <2>2. CASE ~ (m = l /\ b = Lib(t))
    <3>1. owner[m][b] = u
      BY <1>3, <1>7, <2>2 DEF Works
    <3>2. /\ at[u] = (IF m = "core" THEN "api" ELSE m) /\ Lib(u) = b
          /\ m = "core" => Layer[request[u].kind] = "core"
      BY <3>1 DEF Placed
    <3>3. at'[u] = at[u]
      <4>1. CASE u # t BY <1>3, <4>1 DEF Works
      <4>2. CASE u = t
        <5>1. m # l BY <2>2, <3>2, <4>2
        <5>2. CASE Takes(t, l)
          <6>1. l # "core"
            BY <1>5, <3>2, <4>2, <5>2 DEF Layers
          <6> QED BY <1>5, <4>2, <5>2, <6>1
        <5>3. CASE Sets(t, l)
          <6>1. CASE l = "core"
            \* t would run the initialiser below as well, and that cell is set.
            <7>1. m = "api" BY <1>6, <3>2, <4>2, <5>1, <5>3, <6>1 DEF Layers
            <7>2. cell["api"][b] = Unset
              BY <1>2, <3>1, <4>2, <7>1 DEF IInv, OwnersUnset
            <7> QED BY <3>2, <4>2, <5>3, <6>1, <7>2 DEF Sets
          <6>2. CASE l # "core" BY <1>6, <4>2, <5>3, <6>2
          <6> QED BY <6>1, <6>2
        <5> QED BY <5>2, <5>3
      <4> QED BY <4>1, <4>2
    <3> QED BY <1>3, <1>4, <3>2, <3>3 DEF Works
  <2> QED BY <2>1, <2>2
<1>8. ASSUME NEW u \in Threads, at'[u] \in Layers
      PROVE  \/ at'[u] = Layer[request'[u].kind]
             \/ /\ Layer[request'[u].kind] = "core" /\ at'[u] = "api"
                /\ owner'["core"][Lib(u)'] = u
  <2>1. CASE u = t
    <3>1. CASE Takes(t, l) /\ l = "core"
      BY <1>1, <1>2, <1>3, <1>4, <1>5, <2>1, <3>1 DEF Placed, Works, Takes
    <3>2. CASE Takes(t, l) /\ l # "core"
      <4>1. at'[t] = at[t] /\ owner'["core"][Lib(t)] = owner["core"][Lib(t)]
        BY <1>2, <1>3, <1>5, <3>2 DEF Works, Layers
      <4> QED BY <1>1, <1>3, <1>4, <2>1, <4>1 DEF Placed, Works
    <3>3. CASE Sets(t, l) /\ l = "core"
      BY <1>2, <1>3, <1>6, <2>1, <3>3 DEF Placed, Works
    <3>4. CASE Sets(t, l) /\ l # "core"
      <4>1. at'[t] = at[t] /\ owner'["core"][Lib(t)] = owner["core"][Lib(t)]
        BY <1>2, <1>3, <1>6, <3>4 DEF Works, Layers
      <4> QED BY <1>1, <1>3, <1>4, <2>1, <4>1 DEF Placed, Works
    <3> QED BY <3>1, <3>2, <3>3, <3>4
  <2>2. CASE u # t
    <3>1. at'[u] = at[u] /\ request'[u] = request[u] /\ Lib(u)' = Lib(u)
      BY <1>3, <1>4, <2>2 DEF Works
    <3>2. Lib(u) \in Libraries BY <1>8, <3>1, Loading
    <3>3. owner["core"][Lib(u)] = u => owner'["core"][Lib(u)] = u
      <4>1. CASE l = "core" /\ Lib(u) = Lib(t)
        BY <1>2, <1>6, <2>2, <4>1, TablesAssumption DEF Takes
      <4>2. CASE ~ (l = "core" /\ Lib(u) = Lib(t))
        BY <1>3, <3>2, <4>2 DEF Works, Layers
      <4> QED BY <4>1, <4>2
    <3> QED BY <1>8, <3>1, <3>3 DEF Placed
  <2> QED BY <2>1, <2>2
<1> QED BY <1>7, <1>8 DEF Placed

\* A thread whose request is accepted, answered or finished runs no initialiser.
LEMMA RequestPlaces ==
    ASSUME IInv, Placed, NEW t \in Threads, Ask(t) \/ Answer(t) \/ Finish(t)
    PROVE  Placed'
<1>1. UNCHANGED <<cell, owner>>
  BY DEF Ask, Answer, Finish
<1>2. at[t] = "idle" \/ Answer(t)
  <2>1. at[t] \in Layers \cup {"idle"} BY DEF IInv, TypeOK
  <2> QED BY <2>1, Loading DEF Ask, Finish
<1>3. \A l \in Layers, b \in Libraries : owner[l][b] # t
  <2> SUFFICES ASSUME NEW l \in Layers, NEW b \in Libraries, owner[l][b] = t PROVE FALSE
    OBVIOUS
  <2>1. /\ at[t] = (IF l = "core" THEN "api" ELSE l) /\ Lib(t) = b
        /\ l = "core" => Layer[request[t].kind] = "core"
    BY DEF Placed
  <2>2. CASE at[t] = "idle" BY <2>1, <2>2 DEF Layers
  <2>3. CASE Answer(t)
    <3>1. at[t] = Layer[request[t].kind] /\ cell[at[t]][Lib(t)] # Unset
      BY <2>3 DEF Answer
    <3>2. cell[l][b] = Unset
      BY TablesAssumption DEF IInv, OwnersUnset
    <3> QED BY <2>1, <3>1, <3>2
  <2> QED BY <1>2, <2>2, <2>3
<1>4. \A u \in Threads : u # t => at'[u] = at[u] /\ request'[u] = request[u]
  BY DEF Ask, Answer, Finish, IInv, TypeOK
<1>5. \A u \in Threads : u # t => Lib(u)' = Lib(u)
  BY <1>4 DEF Lib
<1>6. at'[t] \in Layers => at'[t] = Layer[request'[t].kind]
  <2>1. CASE Ask(t)
    <3>1. CASE UNCHANGED <<request, at>>
      BY <1>2, <2>1, <3>1 DEF Answer, Ask, Layers
    <3>2. CASE ~ UNCHANGED <<request, at>>
      <4>1. PICK r \in Requests : /\ request' = [request EXCEPT ![t] = r]
                                 /\ at' = [at EXCEPT ![t] = Layer[r.kind]]
        BY <2>1, <3>2 DEF Ask
      <4> QED BY <4>1 DEF IInv, TypeOK
    <3> QED BY <3>1, <3>2
  <2>2. CASE Answer(t) \/ Finish(t)
    <3>1. at'[t] = "idle"
      BY <2>2 DEF Answer, Finish, IInv, TypeOK
    <3> QED BY <3>1 DEF Layers
  <2> QED BY <2>1, <2>2
<1> QED BY <1>1, <1>3, <1>4, <1>5, <1>6 DEF Placed

\* Every thread is placed, in every state.
LEMMA PlacedHolds == Spec => []Placed
<1>1. Init => Placed
  BY TablesAssumption DEF Init, Placed, Layers
<1>2. IInv /\ Placed /\ [Next]_vars => Placed'
  <2> SUFFICES ASSUME IInv, Placed, [Next]_vars PROVE Placed'
    OBVIOUS
  <2>1. CASE UNCHANGED vars
    BY <2>1 DEF vars, Placed, Lib
  <2>2. CASE Next
    <3>1. PICK t \in Threads : Ask(t) \/ Finish(t) \/ Step(t)
      BY <2>2 DEF Next, Step
    <3>2. CASE Ask(t) \/ Finish(t) \/ Answer(t)
      BY <3>2, RequestPlaces
    <3>3. CASE Enter(t)
      <4>1. at[t] \in Layers BY <3>3 DEF Enter
      <4> QED BY <3>3, <4>1, EnterTakes, WorkPlaces
    <3>4. CASE Build(t) \/ BuildCompiler(t) \/ Validate(t)
      BY <3>4, InitialisersSet, WorkPlaces
    <3> QED BY <3>1, <3>2, <3>3, <3>4 DEF Step
  <2> QED BY <2>1, <2>2
<1> QED BY Invariant, <1>1, <1>2, PTL DEF Spec

\* A thread that runs the initialiser of a driver's table or a compiler's state
\* does not wait; one that runs a validated table's waits, if it does, for the
\* one that runs the initialiser below.
LEMMA OwnersWork ==
    ASSUME IInv, Placed, NEW t \in Threads, Waiting(t)
    PROVE  \E u \in Threads, l \in Layers :
               owner[l][Lib(t)] = u /\ at[u] \in Layers /\ ~ Waiting(u)
<1> DEFINE b == Lib(t)
<1>1. /\ at[t] \in Layers /\ owner[at[t]][b] # NoThread /\ ~ Building(t)
      /\ b \in Libraries
  BY Loading DEF Waiting
<1>2. ASSUME NEW l \in {"api", "rtc"}, owner[l][b] # NoThread
      PROVE  \E u \in Threads, m \in Layers :
                 owner[m][b] = u /\ at[u] \in Layers /\ ~ Waiting(u)
  <2>1. l \in Layers BY DEF Layers
  <2>2. PICK u \in Threads : owner[l][b] = u
    BY <1>1, <1>2, <2>1 DEF IInv, TypeOK
  <2>3. at[u] = l /\ Lib(u) = b
    BY <1>1, <2>1, <2>2 DEF Placed
  <2>4. Building(u) BY <2>2, <2>3 DEF Building
  <2> QED BY <2>1, <2>2, <2>3, <2>4 DEF Waiting
<1>3. CASE at[t] # "core"
  BY <1>1, <1>2, <1>3 DEF Layers
<1>4. CASE at[t] = "core"
  <2>1. PICK u \in Threads : owner["core"][b] = u
    BY <1>1, <1>4 DEF IInv, TypeOK
  <2>2. at[u] = "api" /\ Lib(u) = b
    BY <1>1, <1>4, <2>1 DEF Placed
  <2>3. CASE Waiting(u)
    BY <1>2, <2>2, <2>3 DEF Waiting
  <2>4. CASE ~ Waiting(u)
    <3>1. "core" \in Layers /\ "api" \in Layers BY DEF Layers
    <3> QED BY <2>1, <2>2, <2>4, <3>1
  <2> QED BY <2>3, <2>4
<1> QED BY <1>3, <1>4

\* However many callers ask for whatever tables, nobody waits in a circle or for
\* a thread that has left: some initialiser of the library goes on
\* (load_common's and load's once-cells).
THEOREM NobodyWaitsInVain == Spec => []WaitersAreServed
<1>1. IInv /\ Placed => WaitersAreServed
  BY OwnersWork DEF WaitersAreServed
<1> QED BY Invariant, PlacedHolds, <1>1, PTL

\* What is left to a request, by where it is and what became of its cell.
LEMMA Measure ==
    ASSUME NEW t \in Threads
    PROVE  LET l == at[t]
               Above == IF l = Layer[request[t].kind] THEN 0 ELSE 1
           IN  /\ l = "idle" => StepsLeft(t) = 0
               /\ l # "idle" /\ cell[l][Lib(t)] # Unset => StepsLeft(t) = 1 + Above
               /\ l # "idle" /\ cell[l][Lib(t)] = Unset /\ owner[l][Lib(t)] = t =>
                      StepsLeft(t) = 2 + Above
               /\ l # "idle" /\ cell[l][Lib(t)] = Unset /\ owner[l][Lib(t)] # t =>
                      StepsLeft(t) = IF l = "core" THEN 5 ELSE 3 + Above
BY DEF StepsLeft

\* The same after a step.
LEMMA MeasureNext ==
    ASSUME NEW t \in Threads
    PROVE  LET l == at'[t]
               Above == IF l = Layer[request'[t].kind] THEN 0 ELSE 1
           IN  /\ l = "idle" => StepsLeft(t)' = 0
               /\ l # "idle" /\ cell'[l][Lib(t)'] # Unset => StepsLeft(t)' = 1 + Above
               /\ l # "idle" /\ cell'[l][Lib(t)'] = Unset /\ owner'[l][Lib(t)'] = t =>
                      StepsLeft(t)' = 2 + Above
               /\ l # "idle" /\ cell'[l][Lib(t)'] = Unset /\ owner'[l][Lib(t)'] # t =>
                      StepsLeft(t)' = IF l = "core" THEN 5 ELSE 3 + Above
BY DEF StepsLeft

\* A thread that takes a cell has its end and the answer before it, one that
\* sets a cell the answer, or the validation above.
LEMMA WorkAdvances ==
    ASSUME IInv, Placed, NEW t \in Threads, NEW l \in Layers, Takes(t, l) \/ Sets(t, l)
    PROVE  StepsLeft(t)' < StepsLeft(t)
<1> DEFINE b == Lib(t)
           k == request[t].kind
<1>1. at[t] \in Layers /\ t # NoThread
  BY TablesAssumption DEF Takes, Sets, Layers
<1>2. b \in Libraries /\ request'[t] = request[t] /\ Lib(t)' = b
  BY <1>1, Loading DEF Takes, Sets, Works, Lib
<1>3. Layer[k] = at[t] \/ (Layer[k] = "core" /\ at[t] = "api")
  BY <1>1 DEF Placed
<1>4. CASE Takes(t, l)
  <2>1. /\ at[t] = l /\ cell[l][b] = Unset /\ owner[l][b] # t
        /\ cell'[l][b] = Unset /\ owner'[l][b] = t
        /\ at'[t] = IF l = "core" THEN "api" ELSE l
    BY <1>1, <1>4 DEF Takes
  <2>2. CASE l = "core"
    <3>1. StepsLeft(t) = 5 BY <2>1, <2>2, Measure
    <3>2. StepsLeft(t)' \in 1 .. 4
      BY <1>2, <1>3, <2>1, <2>2, MeasureNext
    <3> QED BY <3>1, <3>2
  <2>3. CASE l # "core"
    <3>1. at'[t] = l /\ l # "idle" BY <2>1, <2>3 DEF Layers
    <3>2. StepsLeft(t) = 3 + (IF l = Layer[k] THEN 0 ELSE 1)
      BY <2>1, <2>3, <3>1, Measure
    <3>3. StepsLeft(t)' = 2 + (IF l = Layer[k] THEN 0 ELSE 1)
      BY <1>2, <2>1, <3>1, MeasureNext
    <3> QED BY <3>2, <3>3
  <2> QED BY <2>2, <2>3
<1>5. CASE Sets(t, l)
  <2>1. /\ at[t] = (IF l = "core" THEN "api" ELSE l) /\ at'[t] = l
        /\ owner[l][b] = t /\ cell[l][b] = Unset /\ cell'[l][b] # Unset
        /\ l = "core" => cell["api"][b] # Unset
    BY <1>5 DEF Sets
  <2>2. CASE l = "core"
    <3>1. Layer[k] = "core" BY <1>2, <2>1, <2>2 DEF Placed
    <3>2. StepsLeft(t) = 2 BY <2>1, <2>2, <3>1, Measure
    <3>3. StepsLeft(t)' = 1 BY <1>2, <2>1, <2>2, <3>1, MeasureNext
    <3> QED BY <3>2, <3>3
  <2>3. CASE l # "core"
    <3>1. at[t] = l /\ l # "idle" BY <2>1, <2>3 DEF Layers
    <3>2. StepsLeft(t) = 2 + (IF l = Layer[k] THEN 0 ELSE 1)
      BY <2>1, <3>1, Measure
    <3>3. StepsLeft(t)' = 1 + (IF l = Layer[k] THEN 0 ELSE 1)
      BY <1>2, <2>1, <3>1, MeasureNext
    <3> QED BY <3>2, <3>3
  <2> QED BY <2>2, <2>3
<1> QED BY <1>4, <1>5

\* What a thread does at a cell takes nothing from another's request: the cell
\* that one is at stays set or comes to be set.
LEMMA WorkKeepsOthers ==
    ASSUME IInv, NEW u \in Threads, NEW l \in Layers, Takes(u, l) \/ Sets(u, l),
           NEW t \in Threads, t # u, at[t] # "idle"
    PROVE  StepsLeft(t)' <= StepsLeft(t)
<1> DEFINE b == Lib(t)
           m == at[t]
<1>1. /\ m \in Layers /\ b \in Libraries
  BY Loading DEF IInv, TypeOK
<1>2. at'[t] = m /\ request'[t] = request[t] /\ Lib(t)' = b /\ m # "idle"
  BY <1>1 DEF Takes, Sets, Works, Lib
<1>3. /\ cell[m][b] # Unset => cell'[m][b] # Unset
      /\ owner[m][b] = t => owner'[m][b] = t
  <2>1. CASE m = l /\ b = Lib(u)
    BY <2>1, TablesAssumption DEF Takes, Sets
  <2>2. CASE ~ (m = l /\ b = Lib(u))
    BY <1>1, <2>2 DEF Takes, Sets, Works
  <2> QED BY <2>1, <2>2
<1>4. CASE cell'[m][b] # Unset
  <2>1. StepsLeft(t)' = 1 + (IF m = Layer[request[t].kind] THEN 0 ELSE 1)
    BY <1>2, <1>4, MeasureNext
  <2>2. CASE m = "core" BY <1>2, <2>1, <2>2, Measure
  <2>3. CASE m # "core" BY <1>2, <2>1, <2>3, Measure
  <2> QED BY <2>2, <2>3
<1>5. CASE cell'[m][b] = Unset /\ owner'[m][b] = t
  <2>1. cell[m][b] = Unset BY <1>3, <1>5
  <2>2. StepsLeft(t)' = 2 + (IF m = Layer[request[t].kind] THEN 0 ELSE 1)
    BY <1>2, <1>5, MeasureNext
  <2>3. CASE m = "core" BY <1>2, <2>1, <2>2, <2>3, Measure
  <2>4. CASE m # "core" BY <1>2, <2>1, <2>2, <2>4, Measure
  <2> QED BY <2>3, <2>4
<1>6. CASE cell'[m][b] = Unset /\ owner'[m][b] # t
  <2>1. cell[m][b] = Unset /\ owner[m][b] # t BY <1>3, <1>6
  <2>2. CASE m = "core" BY <1>2, <1>6, <2>1, <2>2, Measure, MeasureNext
  <2>3. CASE m # "core"
    <3>1. StepsLeft(t) = 3 + (IF m = Layer[request[t].kind] THEN 0 ELSE 1)
      BY <1>2, <2>1, <2>3, Measure
    <3>2. StepsLeft(t)' = 3 + (IF m = Layer[request[t].kind] THEN 0 ELSE 1)
      BY <1>2, <1>6, <2>3, MeasureNext
    <3> QED BY <3>1, <3>2
  <2> QED BY <2>2, <2>3
<1> QED BY <1>4, <1>5, <1>6

\* Nor does making a request, taking its answer or finishing it.
LEMMA RequestKeepsOthers ==
    ASSUME IInv, NEW u \in Threads, Ask(u) \/ Answer(u) \/ Finish(u),
           NEW t \in Threads, t # u
    PROVE  StepsLeft(t)' = StepsLeft(t)
<1>1. /\ at'[t] = at[t] /\ request'[t] = request[t] /\ UNCHANGED <<cell, owner>>
  BY DEF Ask, Answer, Finish, IInv, TypeOK
<1>2. Lib(t)' = Lib(t)
  BY <1>1 DEF Lib
<1> QED BY <1>1, <1>2 DEF StepsLeft

\* What is left is a number.
LEMMA StepsAreFew == ASSUME IInv, NEW t \in Threads PROVE StepsLeft(t) \in 0 .. 5
<1>1. CASE at[t] = "idle" BY <1>1, Measure
<1>2. CASE at[t] # "idle" /\ cell[at[t]][Lib(t)] # Unset BY <1>2, Measure
<1>3. CASE at[t] # "idle" /\ cell[at[t]][Lib(t)] = Unset BY <1>3, Measure
<1> QED BY <1>1, <1>2, <1>3

\* A step of a request leaves fewer to it.
LEMMA StepAdvances ==
    ASSUME IInv, Placed, NEW t \in Threads, Step(t)
    PROVE  at[t] # "idle" /\ StepsLeft(t)' < StepsLeft(t)
<1>1. CASE Answer(t)
  <2>1. /\ at[t] # "idle" /\ at[t] = Layer[request[t].kind]
        /\ cell[at[t]][Lib(t)] # Unset /\ at'[t] = "idle"
    BY <1>1 DEF Answer, IInv, TypeOK, Layers
  <2>2. StepsLeft(t) = 1 /\ StepsLeft(t)' = 0
    BY <2>1, Measure, MeasureNext
  <2> QED BY <2>1, <2>2
<1>2. CASE Enter(t)
  <2>1. at[t] \in Layers BY <1>2 DEF Enter
  <2>2. Takes(t, at[t]) BY <1>2, EnterTakes
  <2>3. StepsLeft(t)' < StepsLeft(t) BY <2>1, <2>2, WorkAdvances
  <2> QED BY <2>1, <2>3 DEF Layers
<1>3. CASE Build(t) \/ BuildCompiler(t) \/ Validate(t)
  <2>1. PICK l \in Layers : Sets(t, l) BY <1>3, InitialisersSet
  <2>2. at[t] # "idle" BY <2>1 DEF Sets, Layers
  <2>3. StepsLeft(t)' < StepsLeft(t) BY <2>1, WorkAdvances
  <2> QED BY <2>2, <2>3
<1> QED BY <1>1, <1>2, <1>3 DEF Step

\* A request of any number of callers is answered within five steps of its own,
\* and nothing the others do adds one: with nobody waiting in vain, a caller whose
\* thread is scheduled gets its table or its error (ocgpuGetApi).
THEOREM RequestsComeToAnEnd == Spec => RequestsAdvance
<1>1. ASSUME IInv, Placed, [Next]_vars, NEW t \in Threads
      PROVE  /\ at[t] # "idle" => StepsLeft(t)' <= StepsLeft(t)
             /\ Step(t) => StepsLeft(t)' < StepsLeft(t)
  <2>1. Step(t) => StepsLeft(t)' < StepsLeft(t)
    BY <1>1, StepAdvances
  <2>2. ASSUME at[t] # "idle" PROVE StepsLeft(t)' <= StepsLeft(t)
    <3>1. CASE Step(t)
      <4>1. IInv' BY <1>1, NextKeeps
      <4>2. StepsLeft(t)' \in Nat
        BY <4>1, MeasureNext
      <4> QED BY <1>1, <2>1, <3>1, <4>2, StepsAreFew
    <3>2. CASE UNCHANGED vars
      <4>1. StepsLeft(t)' = StepsLeft(t)
        BY <3>2 DEF vars, StepsLeft, Lib
      <4> QED BY <1>1, <4>1, StepsAreFew
    <3>3. CASE Next /\ ~ Step(t)
      <4>1. PICK u \in Threads : Ask(u) \/ Finish(u) \/ Step(u)
        BY <3>3 DEF Next, Step
      <4>2. CASE u = t
        <5>1. at[t] \in Layers BY <1>1, <2>2 DEF IInv, TypeOK
        <5> QED BY <1>1, <2>2, <3>3, <4>1, <4>2, <5>1, Loading DEF Ask, Finish
      <4>3. CASE u # t /\ (Ask(u) \/ Finish(u) \/ Answer(u))
        <5>1. StepsLeft(t)' = StepsLeft(t)
          BY <1>1, <4>3, RequestKeepsOthers
        <5> QED BY <1>1, <5>1, StepsAreFew
      <4>4. CASE u # t /\ Enter(u)
        <5>1. at[u] \in Layers BY <4>4 DEF Enter
        <5> QED BY <1>1, <2>2, <4>4, <5>1, EnterTakes, WorkKeepsOthers
      <4>5. CASE u # t /\ (Build(u) \/ BuildCompiler(u) \/ Validate(u))
        BY <1>1, <2>2, <4>5, InitialisersSet, WorkKeepsOthers
      <4> QED BY <4>1, <4>2, <4>3, <4>4, <4>5 DEF Step
    <3> QED BY <1>1, <3>1, <3>2, <3>3
  <2> QED BY <2>1, <2>2
<1>2. (IInv /\ Placed) /\ [Next]_vars => [\A t \in Threads :
          /\ at[t] # "idle" => StepsLeft(t)' <= StepsLeft(t)
          /\ Step(t) => StepsLeft(t)' < StepsLeft(t)]_vars
  BY <1>1
<1> QED BY Invariant, PlacedHolds, NobodyWaitsInVain, <1>2, PTL DEF Spec, RequestsAdvance

-----------------------------------------------------------------------------
(* The tables are what the C interface promises (SharedTables).            *)

View == [t \in Threads |-> [i \in 1..MaxWords |-> Seen(buffer[t][i])]]

\* The contract's words for libraries, cells and completeness are the model's.
LEMMA SameWords ==
    /\ Contract!Libraries = Libraries
    /\ Contract!Unset = Unset /\ Contract!Failed = Failed
    /\ \A S : Contract!Ready(S) = Ready(S)
    /\ \A b : Contract!FunctionsOf(b) = FunctionsOf(b)
    /\ \A b, l, S : Contract!Has(b, l, S) <=> Complete(b, l, S)
<1>1. Contract!Libraries = Libraries
  BY DEF Contract!Libraries, Libraries
<1>2. Contract!Unset = Unset /\ Contract!Failed = Failed
  BY DEF Contract!Unset, Contract!Failed, Unset, Failed
<1>3. \A S : Contract!Ready(S) = Ready(S)
  BY DEF Contract!Ready, Ready
<1>4. \A b : Contract!FunctionsOf(b) = FunctionsOf(b)
  BY DEF Contract!FunctionsOf, FunctionsOf
<1>5. \A b, l, S : Contract!Has(b, l, S) <=> Complete(b, l, S)
  BY DEF Contract!Has, Complete
<1> QED BY <1>1, <1>2, <1>3, <1>4, <1>5

\* Nothing is known and nobody is shown anything at first.
LEMMA ContractInit == Init => Contract!Init
<1> SUFFICES ASSUME Init PROVE Contract!Init
  OBVIOUS
<1>1. cell = [l \in {"api", "core", "rtc"} |-> [b \in Contract!Libraries |-> Contract!Unset]]
  BY SameWords DEF Init, Layers
<1>2. View = [t \in Threads |-> Contract!Blank]
  BY DEF Init, View, Untouched, Seen, Contract!Blank
<1> QED BY <1>1, <1>2 DEF Init, Contract!Init, View

\* The end of an initialiser makes one fact known: the cell was unset, and what it
\* is given is among what may become known.
LEMMA KeepDecides ==
    ASSUME IInv, NEW t \in Threads, NEW l \in Layers, NEW c \in Contract!Verdicts(l, Lib(t)),
           Keep(t, l, c), owner[l][Lib(t)] = t, Lib(t) \in Libraries,
           UNCHANGED <<request, buffer>>
    PROVE  Contract!Decide(l, Lib(t))
<1>1. cell[l][Lib(t)] = Contract!Unset
  BY SameWords, TablesAssumption DEF IInv, OwnersUnset
<1>2. cell' = [cell EXCEPT ![l][Lib(t)] = c]
  BY DEF Keep
<1>3. View' = View
  BY DEF View
<1> QED BY <1>1, <1>2, <1>3 DEF Contract!Decide, View

\* Each initialiser keeps what may become known of its layer.
LEMMA InitialisersDecide ==
    ASSUME IInv, NEW t \in Threads, Build(t) \/ BuildCompiler(t) \/ Validate(t)
    PROVE  \E l \in {"api", "core", "rtc"}, b \in Contract!Libraries : Contract!Decide(l, b)
<1>1. at[t] \in Layers /\ Lib(t) \in Libraries /\ UNCHANGED <<request, buffer>>
  <2>1. at[t] \in Layers BY DEF Build, BuildCompiler, Validate, Layers
  <2> QED BY <2>1, Loading DEF Build, BuildCompiler, Validate
<1>2. "api" \in Layers /\ "core" \in Layers /\ "rtc" \in Layers
  BY DEF Layers
<1>3. SUFFICES \E l \in Layers : Contract!Decide(l, Lib(t))
  BY <1>1, <1>3, SameWords DEF Layers
<1>4. CASE Build(t)
  <2>1. Contract!Verdicts("api", Lib(t)) = {Failed} \cup {Ready(S) : S \in SUBSET FunctionsOf(Lib(t))}
    BY SameWords DEF Contract!Verdicts
  <2>2. PICK c \in Contract!Verdicts("api", Lib(t)) : Keep(t, "api", c)
    BY <1>4, <2>1 DEF Build
  <2>3. owner["api"][Lib(t)] = t BY <1>4 DEF Build
  <2> QED BY <1>1, <1>2, <2>2, <2>3, KeepDecides
<1>5. CASE BuildCompiler(t)
  <2>1. Contract!Verdicts("rtc", Lib(t)) =
            {Failed} \cup {Ready(S) : S \in {F \in SUBSET FunctionsOf(Lib(t)) :
                                              Complete(Lib(t), "rtc", F)}}
    BY SameWords DEF Contract!Verdicts
  <2>2. PICK c \in Contract!Verdicts("rtc", Lib(t)) : Keep(t, "rtc", c)
    BY <1>5, <2>1 DEF BuildCompiler
  <2>3. owner["rtc"][Lib(t)] = t BY <1>5 DEF BuildCompiler
  <2> QED BY <1>1, <1>2, <2>2, <2>3, KeepDecides
<1>6. CASE Validate(t)
  <2> DEFINE below == cell["api"][Lib(t)]
  <2>1. Contract!Verdicts("core", Lib(t)) =
            IF below = Unset THEN {}
            ELSE IF below.state = "ready" /\ Complete(Lib(t), "core", below.present)
                 THEN {below} ELSE {Failed}
    BY SameWords DEF Contract!Verdicts
  <2>2. PICK c \in Contract!Verdicts("core", Lib(t)) : Keep(t, "core", c)
    BY <1>6, <2>1 DEF Validate
  <2>3. owner["core"][Lib(t)] = t BY <1>6 DEF Validate
  <2> QED BY <1>1, <1>2, <2>2, <2>3, KeepDecides
<1> QED BY <1>4, <1>5, <1>6

\* Without a request a thread is shown nothing.
LEMMA NothingShown ==
    ASSUME IInv, NEW t \in Threads, request[t] = NoRequest
    PROVE  buffer[t] = Untouched
<1>1. \A i \in 1..MaxWords : buffer[t][i] = "untouched"
  BY NoRequestAssumption DEF IInv, WordsGiven, Given
<1> QED BY <1>1 DEF IInv, TypeOK, Untouched

\* A request that is accepted is asked; one that is refused leaves no trace.
LEMMA AskAsks == ASSUME IInv, NEW t \in Threads, Ask(t)
                 PROVE  Contract!Ask(t) \/ UNCHANGED <<cell, request, View>>
<1>1. request[t] = NoRequest /\ UNCHANGED cell BY DEF Ask
<1>2. buffer' = buffer
  BY <1>1, NothingShown DEF Ask, IInv, TypeOK
<1>3. View' = View
  BY <1>2 DEF View
<1>4. CASE UNCHANGED request BY <1>1, <1>3, <1>4
<1>5. CASE ~ UNCHANGED request
  <2>1. PICK r \in Requests : ~ Refused(r) /\ request' = [request EXCEPT ![t] = r]
    BY <1>5 DEF Ask
  <2>2. /\ r.kind \in Kinds /\ r.room \in 1..MaxWords
        /\ r = [kind |-> r.kind, abi |-> TRUE, null |-> FALSE, room |-> r.room]
    <3>1. r.room \in 0..MaxWords /\ r.room >= 1 BY <2>1 DEF Refused, Valid, Requests
    <3>2. r.room \in 1..MaxWords BY <3>1, TablesAssumption
    <3>3. r.abi = TRUE /\ r.null = FALSE /\ r.kind \in Kinds
      BY <2>1 DEF Refused, Valid, Requests
    <3> QED BY <2>1, <3>2, <3>3 DEF Requests
  <2> QED BY <1>1, <1>3, <2>1, <2>2 DEF Contract!Ask, View
<1> QED BY <1>4, <1>5

\* An answer shows what is known: the words written, and those not written are
\* untouched, for only this request can have written any.
LEMMA AnswerShows == ASSUME IInv, NEW t \in Threads, Answer(t)
                     PROVE  Contract!Show(t) \/ UNCHANGED <<cell, request, View>>
<1> DEFINE k == request[t].kind
           kept == CellOf(k)
           table == Table(k, kept.present)
<1>1. /\ at[t] \in Layers /\ at[t] = Layer[k] /\ kept # Unset
      /\ UNCHANGED <<cell, request>>
  BY DEF Answer, Lib, CellOf
<1>2. request[t] \in Requests /\ k \in Kinds /\ request[t] # NoRequest
      /\ Layer[k] \in Layers /\ Library[k] \in Libraries
  BY <1>1, Loading, KindsTyped
<1>3. kept.state \in {"ready", "failed"}
  <2>1. kept \in Cells BY <1>2 DEF IInv, TypeOK, CellOf
  <2> QED BY <1>1, <2>1, CellsTyped
<1>4. CASE kept.state = "failed"
  <2>1. UNCHANGED buffer BY <1>1, <1>4 DEF Answer, Lib, CellOf
  <2> QED BY <1>1, <2>1 DEF View
<1>5. CASE kept.state = "ready"
  <2>1. buffer' = [buffer EXCEPT ![t] =
               [i \in DOMAIN @ |->
                   IF i \in Written(request[t].room, table) THEN table[i] ELSE @[i]]]
    BY <1>1, <1>5 DEF Answer, Lib, CellOf
  <2>2. \A u \in Threads : u # t => buffer'[u] = buffer[u]
    BY <2>1 DEF IInv, TypeOK
  <2>3. \A i \in 1..MaxWords : buffer'[t][i] =
            IF i \in Written(request[t].room, table) THEN table[i] ELSE buffer[t][i]
    BY <2>1 DEF IInv, TypeOK
  <2>4. Entries[k] \in Seq(Functions) /\ Len(Entries[k]) \in Nat
    BY <1>2, TablesAssumption
  <2>5. \A i \in 1..MaxWords : Seen(buffer'[t][i]) =
            IF i <= request[t].room /\ i <= Len(Entries[k]) + 1
            THEN Contract!Shown(k, kept.present, i) ELSE "untouched"
    <3> SUFFICES ASSUME NEW i \in 1..MaxWords
                 PROVE  Seen(buffer'[t][i]) =
                            IF i <= request[t].room /\ i <= Len(Entries[k]) + 1
                            THEN Contract!Shown(k, kept.present, i) ELSE "untouched"
      OBVIOUS
    <3>1. i \in Written(request[t].room, table)
              <=> i <= request[t].room /\ i <= Len(Entries[k]) + 1
      BY <2>4 DEF Written, Table
    <3>2. CASE i \in Written(request[t].room, table)
      <4>1. i \in 1..Len(Entries[k]) + 1 /\ buffer'[t][i] = table[i]
        BY <2>3, <2>4, <3>1, <3>2
      <4>2. table[i] = IF i = 1 THEN "meta" ELSE Word(k, i - 1, kept.present)
        BY <4>1 DEF Table
      <4>3. Seen(table[i]) = Contract!Shown(k, kept.present, i)
        BY <4>2 DEF Seen, Word, Contract!Shown
      <4> QED BY <3>1, <3>2, <4>1, <4>3
    <3>3. CASE i \notin Written(request[t].room, table)
      <4>1. buffer'[t][i] = buffer[t][i] BY <2>3, <3>3
      <4>2. buffer[t][i] = "untouched"
        BY <3>3 DEF IInv, WordsGiven, Given, Written
      <4> QED BY <3>1, <3>3, <4>1, <4>2 DEF Seen
    <3> QED BY <3>2, <3>3
  <2>6. View' = [View EXCEPT ![t] =
            [i \in 1..MaxWords |->
                IF i <= request[t].room /\ i <= Len(Entries[k]) + 1
                THEN Contract!Shown(k, kept.present, i) ELSE "untouched"]]
    BY <2>2, <2>5 DEF View
  <2> HIDE DEF kept
  <2> QED BY <1>1, <1>2, <1>5, <2>6 DEF Contract!Show, View, CellOf, kept
<1> QED BY <1>3, <1>4, <1>5

\* For any callers and any tables, the once-cells and their initialisers, the
\* adapters and the copying implement facts that become known once and are shown
\* as they are (ocgpuGetApi down to load_common's and load's cells).
THEOREM ImplementsSharedTables == Spec => KeepsTheContract
<1>1. ASSUME IInv, [Next]_vars
      PROVE  Contract!Next \/ UNCHANGED <<cell, request, View>>
  <2>1. CASE UNCHANGED vars
    BY <2>1 DEF vars, View
  <2>2. CASE Next
    <3>1. PICK t \in Threads : Ask(t) \/ Finish(t) \/ Step(t)
      BY <2>2 DEF Next, Step
    <3>2. CASE Ask(t)
      BY <1>1, <3>2, AskAsks DEF Contract!Next
    <3>3. CASE Finish(t)
      <4>1. /\ request[t] # NoRequest /\ UNCHANGED cell
            /\ request' = [request EXCEPT ![t] = NoRequest]
            /\ buffer' = [buffer EXCEPT ![t] = Untouched]
        BY <3>3 DEF Finish
      <4>2. View' = [View EXCEPT ![t] = Contract!Blank]
        BY <1>1, <4>1 DEF View, IInv, TypeOK, Untouched, Seen, Contract!Blank
      <4> QED BY <4>1, <4>2 DEF Contract!Next, Contract!Finish, View
    <3>4. CASE Enter(t)
      BY <3>4 DEF Enter, View
    <3>5. CASE Build(t) \/ BuildCompiler(t) \/ Validate(t)
      BY <1>1, <3>5, InitialisersDecide DEF Contract!Next
    <3>6. CASE Answer(t)
      BY <1>1, <3>6, AnswerShows DEF Contract!Next
    <3> QED BY <3>1, <3>2, <3>3, <3>4, <3>5, <3>6 DEF Step
  <2> QED BY <1>1, <2>1, <2>2
<1>2. IInv /\ [Next]_vars => [Contract!Next]_(Contract!vars)
  BY <1>1 DEF Contract!vars, View
<1> QED BY Invariant, ContractInit, <1>2, PTL DEF Spec, KeepsTheContract, Contract!Spec

=============================================================================
