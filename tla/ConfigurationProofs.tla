-------------------------- MODULE ConfigurationProofs --------------------------
(***************************************************************************)
(* Theorems about the configuration: how its files come to be and are read *)
(* (Boot), for any number of saves by the operator, whatever versions of   *)
(* the files do not fit together, and a process that may die between any   *)
(* two steps; and what is made of them (Catalog), for any entries, fields  *)
(* and requests.                                                           *)
(***************************************************************************)
EXTENDS Boot, Catalog, FiniteSetTheorems, SequenceTheorems, TLAPS


(* The three files, one by one.                                            *)
LEMMA FilesAre ==
  /\ Files = { "keys.env", "provider.yaml", "models.yaml" }
  /\ \A i \in 1..3 : configFiles[i] \in Files
  /\ \A f \in Files : \E i \in 1..3 : f = configFiles[i]
  /\ \A i, j \in 1..3 : configFiles[i] = configFiles[j] => i = j
<1>1. /\ configFiles[1] = "keys.env"
      /\ configFiles[2] = "provider.yaml"
      /\ configFiles[3] = "models.yaml"
  BY DEF configFiles
<1>2. \A i \in 1..3 : i = 1 \/ i = 2 \/ i = 3
  OBVIOUS
<1>. QED
  BY <1>1, <1>2 DEF Files

(* The contents a file may have.                                           *)
LEMMA ContentRange ==
  /\ Absent \in Content /\ Unusable \in Content /\ Starter \in Content
  /\ Content \subseteq Int
  BY BootAssumption DEF Content, Absent, Unusable, Starter

LEMMA NothingType == Nothing \in [Files -> Content]
  BY ContentRange DEF Nothing

(* The type invariant in two parts: the flags, and the rest.               *)
Flags ==
  /\ created \in BOOLEAN /\ pending \in BOOLEAN
  /\ asked \in BOOLEAN /\ edited \in BOOLEAN /\ half \in BOOLEAN

Rest ==
  /\ file \in [Files -> Content]
  /\ edits \in 0..MaxEdits
  /\ proc \in { "down", "checking", "writing", "loading", "serving" }
  /\ purpose \in { "init", "serve" }
  /\ at \in 0..4
  /\ got \in [Files -> Content] /\ config \in [Files -> Content]

LEMMA InitTypeOK == Init => Flags /\ Rest
<1>1. Init => Flags
  BY Zenon DEF Init, Flags
<1>2. Init => Rest
  BY BootAssumption, NothingType DEF Init, Rest
<1>. QED
  BY <1>1, <1>2

LEMMA NextFlags == Flags /\ [Next]_vars => Flags'
<1>. SUFFICES ASSUME Flags, [Next]_vars
              PROVE  Flags'
  OBVIOUS
<1>. USE DEF Flags
<1>1. CASE Start
  BY <1>1, Zenon DEF Start
<1>2. CASE Check
  BY <1>2, Zenon DEF Check
<1>3. CASE RefuseToOverwrite
  BY <1>3, Zenon DEF RefuseToOverwrite, Over
<1>4. CASE Create
  BY <1>4, Zenon DEF Create
<1>5. CASE Write
  BY <1>5, Zenon DEF Write
<1>6. CASE Read
  BY <1>6, Zenon DEF Read
<1>7. CASE ReadFails
  BY <1>7, Zenon DEF ReadFails, Over
<1>8. CASE Install
  BY <1>8, Zenon DEF Install
<1>9. CASE TakeSignal
  BY <1>9, Zenon DEF TakeSignal
<1>10. CASE Hangup
  BY <1>10, Zenon DEF Hangup
<1>11. ASSUME NEW f \in Files, Save(f)
       PROVE  Flags'
  BY <1>11, Zenon DEF Save, volatile
<1>12. CASE Die
  <2>1. half' \in BOOLEAN
    BY <1>12, Zenon DEF Die
  <2>. QED
    BY <1>12, <2>1, Zenon DEF Die, Over
<1>13. CASE UNCHANGED vars
  BY <1>13, Zenon DEF vars, volatile
<1>. QED
  BY <1>1, <1>2, <1>3, <1>4, <1>5, <1>6, <1>7, <1>8, <1>9, <1>10, <1>11, <1>12,
     <1>13 DEF Next

LEMMA NextRest == Rest /\ [Next]_vars => Rest'
<1>. SUFFICES ASSUME Rest, [Next]_vars
              PROVE  Rest'
  OBVIOUS
<1>. USE DEF Rest
<1>1. CASE Start
  BY <1>1 DEF Start
<1>2. CASE Check
  BY <1>2 DEF Check
<1>3. ASSUME Over
      PROVE  Rest'
  BY <1>3, NothingType DEF Over
<1>4. CASE RefuseToOverwrite \/ Die
  BY <1>3, <1>4 DEF RefuseToOverwrite, Die
<1>5. CASE Create
  BY <1>5, ContentRange DEF Create
<1>6. CASE Write
  <2>1. file' \in [Files -> Content]
    BY <1>6, ContentRange DEF Write
  <2>2. at' \in 0..4 /\ proc' \in { "writing", "loading", "down" }
        /\ purpose' \in { "init", "serve" }
    BY <1>6 DEF Write
  <2>. QED
    BY <1>6, <2>1, <2>2 DEF Write
<1>7. CASE Read
  <2>1. file[configFiles[at]] \in Content
    BY <1>7, FilesAre DEF Read
  <2>2. got' \in [Files -> Content]
    BY <1>7, <2>1 DEF Read
  <2>3. at' \in 0..4
    BY <1>7 DEF Read
  <2>. QED
    BY <1>7, <2>2, <2>3 DEF Read
<1>8. CASE ReadFails
  BY <1>3, <1>8, NothingType DEF ReadFails
<1>9. CASE Install
  BY <1>9, NothingType DEF Install
<1>10. CASE TakeSignal \/ Hangup
  BY <1>10 DEF TakeSignal, Hangup
<1>11. ASSUME NEW f \in Files, Save(f)
       PROVE  Rest'
  <2>1. edits' \in 0..MaxEdits /\ edits' \in Content
    BY <1>11, BootAssumption DEF Save, Content, Absent
  <2>2. file' \in [Files -> Content]
    BY <1>11, <2>1, ContentRange DEF Save
  <2>. QED
    BY <1>11, <2>1, <2>2 DEF Save, volatile
<1>12. CASE UNCHANGED vars
  BY <1>12 DEF vars, volatile
<1>. QED
  BY <1>1, <1>2, <1>4, <1>5, <1>6, <1>7, <1>8, <1>9, <1>10, <1>11, <1>12 DEF Next

(* The directory and the process keep their types, whatever is saved and   *)
(* wherever the process dies.                                              *)
THEOREM TypeCorrect == Spec => []TypeOK
<1>1. Spec => [](Flags /\ Rest)
  BY InitTypeOK, NextFlags, NextRest, PTL DEF Spec
<1>2. Flags /\ Rest => TypeOK
  BY Zenon DEF Flags, Rest, TypeOK
<1>. QED
  BY <1>1, <1>2, PTL

-----------------------------------------------------------------------------
(* An init that was cut short.                                             *)

(* While an init writes, the file it is at is not there yet or just        *)
(* created, and those after it are not there: wherever it is cut short a   *)
(* file is left that Load refuses.                                         *)
Writing ==
  IF proc = "writing"
    THEN /\ at \in 1..3
         /\ file[configFiles[at]] = IF created THEN Unusable ELSE Absent
         /\ \A i \in (at + 1)..3 : file[configFiles[i]] = Absent
    ELSE ~ created

(* Such a directory is not empty, so nobody fills it up, and a load that   *)
(* goes through it meets that file before its end.                         *)
HalfInv ==
  half => /\ proc \in { "down", "checking", "loading" }
          /\ file # Nothing
          /\ \E i \in 1..3 : file[configFiles[i]] < Starter
          /\ proc = "loading" => \A i \in 1..(at - 1) :
                                   i \in 1..3 => file[configFiles[i]] >= Starter

LEMMA NextWriting == TypeOK /\ Writing /\ [Next]_vars => Writing'
<1>. SUFFICES ASSUME TypeOK, Writing, [Next]_vars
              PROVE  Writing'
  OBVIOUS
<1>. USE DEF TypeOK, Writing
<1>1. ASSUME proc' # "writing", ~ created'
      PROVE  Writing'
  BY <1>1
<1>2. CASE Check
  BY <1>2, FilesAre DEF Check
<1>3. CASE Create
  BY <1>3, FilesAre DEF Create
<1>4. CASE Write
  <2>1. CASE at < 3
    <3>1. at' = at + 1 /\ proc' = "writing" /\ created' = FALSE
      BY <1>4, <2>1 DEF Write
    <3>2. \A i \in (at + 1)..3 : file'[configFiles[i]] = Absent
      BY <1>4, FilesAre DEF Write
    <3>. QED
      BY <2>1, <3>1, <3>2
  <2>2. CASE at >= 3
    BY <1>4, <2>2, <1>1 DEF Write
  <2>. QED
    BY <1>4, <2>1, <2>2 DEF Write
<1>5. CASE UNCHANGED vars
  BY <1>5 DEF vars, volatile
<1>6. ASSUME NEW f \in Files, Save(f)
      PROVE  Writing'
  BY <1>1, <1>6 DEF Save, volatile
<1>7. CASE Start \/ RefuseToOverwrite \/ Read \/ ReadFails \/ Install
             \/ TakeSignal \/ Hangup \/ Die
  BY <1>1, <1>7 DEF Start, RefuseToOverwrite, Read, ReadFails, Install,
     TakeSignal, Hangup, Die, Over, Reading
<1>. QED
  BY <1>1, <1>2, <1>3, <1>4, <1>5, <1>6, <1>7 DEF Next

LEMMA NextHalfInv == TypeOK /\ Writing /\ HalfInv /\ [Next]_vars => HalfInv'
<1>. SUFFICES ASSUME TypeOK, Writing, HalfInv, [Next]_vars, half'
              PROVE  HalfInv'
  BY DEF HalfInv
<1>. USE DEF TypeOK
<1>1. CASE Die
  <2>1. UNCHANGED file /\ proc' = "down"
    BY <1>1 DEF Die, Over
  <2>2. CASE half
    BY <2>1, <2>2 DEF HalfInv
  <2>3. CASE ~ half
    <3>1. proc = "writing" /\ file # Nothing
      BY <1>1, <2>3 DEF Die
    <3>2. at \in 1..3 /\ file[configFiles[at]] < Starter
      BY <3>1 DEF Writing, Unusable, Absent, Starter
    <3>. QED
      BY <2>1, <3>1, <3>2 DEF HalfInv
  <2>. QED
    BY <2>2, <2>3
<1>2. CASE Start
  <2>1. UNCHANGED << file, half >>
    BY <1>2 DEF Start
  <2>2. proc' = "checking" \/ (proc' = "loading" /\ at' = 1)
    BY <1>2 DEF Start
  <2>. QED
    BY <2>1, <2>2, FilesAre DEF HalfInv
<1>3. CASE Check
  <2>1. file = Nothing
    BY <1>3 DEF Check, Nothing
  <2>. QED
    BY <1>3, <2>1 DEF Check, HalfInv
<1>4. CASE Create \/ Write
  BY <1>4 DEF Create, Write, HalfInv
<1>5. CASE RefuseToOverwrite
  BY <1>5 DEF RefuseToOverwrite, Over, HalfInv
<1>6. CASE Read
  BY <1>6 DEF Read, Reading, HalfInv
<1>7. CASE ReadFails
  BY <1>7 DEF ReadFails, Over, Reading, HalfInv
<1>8. CASE Install
  <2>1. half /\ proc = "loading" /\ at = 4
    BY <1>8 DEF Install, Reading, HalfInv
  <2>2. PICK i \in 1..3 : file[configFiles[i]] < Starter
    BY <2>1 DEF HalfInv
  <2>3. file[configFiles[i]] >= Starter
    BY <2>1, <2>2 DEF HalfInv
  <2>. QED
    <3>1. file[configFiles[i]] \in Int
      BY FilesAre, ContentRange
    <3>. QED
      BY <2>2, <2>3, <3>1 DEF Starter
<1>9. CASE TakeSignal \/ Hangup
  BY <1>9 DEF TakeSignal, Hangup, HalfInv
<1>10. ASSUME NEW f \in Files, Save(f)
       PROVE  HalfInv'
  BY <1>10 DEF Save
<1>11. CASE UNCHANGED vars
  BY <1>11 DEF vars, volatile, HalfInv
<1>. QED
  BY <1>1, <1>2, <1>3, <1>4, <1>5, <1>6, <1>7, <1>8, <1>9, <1>10, <1>11 DEF Next

(* However often the process is started on a directory that an init has    *)
(* left half written, and however often it dies, it serves nobody until    *)
(* the operator has saved or deleted a file.                               *)
THEOREM HalfInitIsNeverServed == Spec => []HalfInitNeverServes
<1>1. Init => Writing /\ HalfInv
  BY DEF Init, Writing, HalfInv
<1>2. HalfInv => HalfInitNeverServes
  BY DEF HalfInv, HalfInitNeverServes
<1>. QED
  BY <1>1, <1>2, TypeCorrect, NextWriting, NextHalfInv, PTL DEF Spec
-----------------------------------------------------------------------------
(* The configuration in force.                                             *)

(* A load has read what comes before the place it is at: readable files    *)
(* that fit together, as they are unless one has been saved since it began.*)
ReadInv ==
  Reading =>
    /\ Fit(got, at - 1)
    /\ \A i \in 1..3 :
         i < at => /\ got[configFiles[i]] >= Starter
                   /\ edited \/ got[configFiles[i]] = file[configFiles[i]]

ServingInv == proc = "serving" => Loadable(config)

LEMMA NextReadInv == Rest /\ ReadInv /\ [Next]_vars => ReadInv'
<1>. SUFFICES ASSUME Rest, ReadInv, [Next]_vars
              PROVE  ReadInv'
  OBVIOUS
<1>1. ASSUME ~ Reading'
      PROVE  ReadInv'
  BY <1>1 DEF ReadInv
<1>2. ASSUME Reading', at' = 1
      PROVE  ReadInv'
  BY <1>2 DEF ReadInv, Fit
<1>3. ASSUME UNCHANGED << proc, at, got >>, edited' \/ UNCHANGED << file, edited >>
      PROVE  ReadInv'
  <2>. SUFFICES ASSUME Reading'
                PROVE  ReadInv'
    BY <1>1
  <2>1. Reading
    BY <1>3 DEF Reading
  <2>2. Fit(got', at' - 1)
    BY <1>3, <2>1 DEF ReadInv
  <2>3. ASSUME NEW i \in 1..3, i < at'
        PROVE  /\ got'[configFiles[i]] >= Starter
               /\ edited' \/ got'[configFiles[i]] = file'[configFiles[i]]
    BY <1>3, <2>1, <2>3 DEF ReadInv
  <2>. QED
    BY <2>2, <2>3 DEF ReadInv
<1>4. CASE Start
  BY <1>1, <1>2, <1>4 DEF Start, Reading
<1>5. CASE Check \/ RefuseToOverwrite \/ Create \/ Die
  BY <1>1, <1>5 DEF Check, RefuseToOverwrite, Create, Die, Over, Reading
<1>6. CASE Write
  <2>1. (proc' = "loading" /\ at' = 1) \/ proc' \in { "writing", "down" }
    BY <1>6 DEF Write
  <2>. QED
    BY <1>1, <1>2, <2>1 DEF Reading
<1>7. CASE Read
  <2>1. /\ Reading /\ at \in 1..3 /\ at' = at + 1
        /\ UNCHANGED << file, edited >>
        /\ file[configFiles[at]] >= Starter
        /\ Fit(got', at)
    BY <1>7 DEF Read
  <2>2. \A i \in 1..3 :
          got'[configFiles[i]] =
            IF i = at THEN file[configFiles[i]] ELSE got[configFiles[i]]
    BY <1>7, FilesAre DEF Read, Rest
  <2>3. Fit(got', at' - 1)
    BY <2>1
  <2>4. ASSUME NEW i \in 1..3, i < at'
        PROVE  /\ got'[configFiles[i]] >= Starter
               /\ edited' \/ got'[configFiles[i]] = file'[configFiles[i]]
    <3>1. CASE i = at
      BY <2>1, <2>2, <3>1
    <3>2. CASE i # at
      <4>1. i < at
        BY <2>1, <2>4, <3>2
      <4>2. /\ got[configFiles[i]] >= Starter
            /\ edited \/ got[configFiles[i]] = file[configFiles[i]]
        BY <2>1, <4>1 DEF ReadInv
      <4>. QED
        BY <2>1, <2>2, <3>2, <4>2
    <3>. QED
      BY <3>1, <3>2
  <2>. QED
    BY <2>3, <2>4 DEF ReadInv
<1>8. CASE ReadFails
  BY <1>1, <1>8 DEF ReadFails, Over, Reading
<1>9. CASE Install
  BY <1>1, <1>9 DEF Install, Reading
<1>10. CASE TakeSignal
  BY <1>2, <1>1, <1>10 DEF TakeSignal
<1>11. CASE Hangup
  BY <1>3, <1>11 DEF Hangup
<1>12. ASSUME NEW f \in Files, Save(f)
       PROVE  ReadInv'
  BY <1>3, <1>12 DEF Save, volatile
<1>13. CASE UNCHANGED vars
  BY <1>3, <1>13 DEF vars, volatile
<1>. QED
  BY <1>4, <1>5, <1>6, <1>7, <1>8, <1>9, <1>10, <1>11, <1>12, <1>13 DEF Next

(* Only a load that has read all three files puts a configuration in force.*)
LEMMA NextServingInv ==
  ReadInv /\ ServingInv /\ [Next]_vars => ServingInv'
<1>. SUFFICES ASSUME ReadInv, ServingInv, [Next]_vars
              PROVE  ServingInv'
  OBVIOUS
<1>1. ASSUME proc' # "serving"
      PROVE  ServingInv'
  BY <1>1 DEF ServingInv
<1>2. ASSUME UNCHANGED << proc, config >>
      PROVE  ServingInv'
  BY <1>2 DEF ServingInv, Loadable, Fit
<1>3. CASE Install
  <2>1. Reading /\ at = 4 /\ config' = got
    BY <1>3 DEF Install
  <2>2. Fit(got, 3)
    BY <2>1 DEF ReadInv
  <2>3. \A i \in 1..3 : got[configFiles[i]] >= Starter
    BY <2>1 DEF ReadInv
  <2>4. Loadable(got)
    BY <2>2, <2>3, FilesAre DEF Loadable
  <2>. QED
    BY <2>1, <2>4 DEF ServingInv, Loadable, Fit
<1>4. CASE Start
  BY <1>1, <1>4 DEF Start
<1>5. CASE RefuseToOverwrite \/ Die
  BY <1>1, <1>5 DEF RefuseToOverwrite, Die, Over
<1>6. CASE Write
  BY <1>1, <1>2, <1>6 DEF Write
<1>7. CASE ReadFails
  BY <1>1, <1>2, <1>7 DEF ReadFails, Over
<1>8. CASE Check \/ Create \/ Read \/ TakeSignal \/ Hangup
  BY <1>1, <1>2, <1>8 DEF Check, Create, Read, TakeSignal, Hangup
<1>9. ASSUME NEW f \in Files, Save(f)
      PROVE  ServingInv'
  BY <1>2, <1>9 DEF Save, volatile
<1>10. CASE UNCHANGED vars
  BY <1>2, <1>10 DEF vars, volatile
<1>. QED
  BY <1>3, <1>4, <1>5, <1>6, <1>7, <1>8, <1>9, <1>10 DEF Next

(* Whatever reloads fail, whatever is saved meanwhile and wherever the     *)
(* process dies, a process that serves has three readable files that fit   *)
(* together, and a load that no save has met read them as they are.        *)
THEOREM ServesOnlyWholeConfigurations == Spec => []ServesWholeConfiguration
<1>1. Init => ReadInv /\ ServingInv
  BY DEF Init, ReadInv, ServingInv, Reading
<1>2. Spec => [](Rest /\ ReadInv /\ ServingInv)
  BY <1>1, InitTypeOK, NextRest, NextReadInv, NextServingInv, PTL DEF Spec
<1>3. Rest /\ ReadInv /\ ServingInv => ServesWholeConfiguration
  <2>. SUFFICES ASSUME Rest, ReadInv, ServingInv,
                       Reading, at = 4, ~ edited
                PROVE  got = file
    BY DEF ServesWholeConfiguration, ServingInv
  <2>1. \A i \in 1..3 : got[configFiles[i]] = file[configFiles[i]]
    BY DEF ReadInv
  <2>2. \A f \in Files : got[f] = file[f]
    BY <2>1, FilesAre
  <2>. QED
    BY <2>2 DEF Rest
<1>. QED
  BY <1>2, <1>3, PTL

-----------------------------------------------------------------------------
(* The catalog: what has been accepted so far.                             *)

(* The providers: names are those of one entry each.                       *)
ProvidersInv ==
  /\ providers \in Seq(ProviderEntries) /\ Len(providers) <= MaxProviders
  /\ \A i, j \in DOMAIN providers :
       providers[i].name = providers[j].name => i = j

(* The model: what has been read of it is valid, whatever came before.     *)
ModelInv ==
  /\ phase = "providers" => DOMAIN model = {}
  /\ Has("kind") => model["kind"] \in Kinds
  /\ Has("providers") =>
       model["providers"] \in Seq(STRING) /\ Range(model["providers"]) \subseteq Names
  /\ Has("dims") => model["dims"] # 0
  /\ DOMAIN model \ Structural \subseteq limitNames(kindSoFar)

(* The slots are those of the files.                                       *)
SlotsInv ==
  IF phase = "serving"
    THEN CanExpand /\ slots = [i \in DOMAIN declared |-> SlotOf(Named(declared[i]))]
    ELSE slots = << >>

(* The last answer is that of the slots.                                   *)
AnswerInv ==
  request # Empty =>
    phase = "serving" /\ request \in Requests /\ answer = Answer(request)

CatalogInv ==
  /\ phase \in { "providers", "model", "serving", "refused" }
  /\ noTools \in BOOLEAN
  /\ ProvidersInv /\ ModelInv /\ SlotsInv /\ AnswerInv

(* An entry without fields.                                                *)
LEMMA NoDomain == DOMAIN Empty = {}
BY DEF Empty

LEMMA CatalogStarts == CatalogInit => CatalogInv
<1> SUFFICES ASSUME CatalogInit PROVE CatalogInv
  OBVIOUS
<1>0. noTools \in BOOLEAN
  BY DEF CatalogInit
<1>1. ProvidersInv
  BY CatalogAssumption DEF CatalogInit, ProvidersInv
<1>2. DOMAIN model = {}
  BY NoDomain DEF CatalogInit
<1>3. ModelInv
  BY <1>2 DEF ModelInv, Has
<1>4. SlotsInv
  BY DEF CatalogInit, SlotsInv
<1>5. AnswerInv
  BY DEF CatalogInit, AnswerInv
<1>6. phase \in { "providers", "model", "serving", "refused" }
  BY DEF CatalogInit
<1> QED
  BY <1>0, <1>1, <1>3, <1>4, <1>5, <1>6 DEF CatalogInv

-----------------------------------------------------------------------------
(* A provider is found by its name.                                        *)
LEMMA NamedIs ==
  ASSUME ProvidersInv, NEW i \in DOMAIN providers
  PROVE  Named(providers[i].name) = providers[i]
<1> DEFINE n == providers[i].name
<1>1. providers[i] \in Range(providers)
  BY DEF Range
<1>2. ASSUME NEW p \in Range(providers), p.name = n PROVE p = providers[i]
  <2>1. PICK j \in DOMAIN providers : p = providers[j]
    BY DEF Range
  <2> QED
    BY <1>2, <2>1 DEF ProvidersInv
<1>3. Named(n) \in Range(providers) /\ Named(n).name = n
  BY <1>1, Zenon DEF Named
<1> QED
  BY <1>2, <1>3

(* Steps after the configuration has been read leave it alone.             *)
LEMMA SameFiles ==
  ASSUME providers' = providers, model' = model, NEW p, NEW name
  PROVE  /\ declared' = declared
         /\ Named(name)' = Named(name)
         /\ SlotOf(p)' = SlotOf(p)
         /\ CanExpand' = CanExpand
<1>1. declared' = declared
  BY Zenon DEF declared, Has
<1>2. Named(name)' = Named(name)
  BY Zenon DEF Named
<1>3. SlotOf(p)' = SlotOf(p)
  BY Zenon DEF SlotOf, SlotMedia, kindSoFar, Has
<1>4. CanExpand' = CanExpand
  BY Zenon DEF CanExpand, declared, Named, kindSupports, Has
<1> QED
  BY <1>1, <1>2, <1>3, <1>4

LEMMA SameSlotOf ==
  ASSUME providers' = providers, model' = model, NEW i
  PROVE  SlotOf(Named(declared[i]))' = SlotOf(Named(declared[i]))
<1>1. declared' = declared
  BY SameFiles
<1>2. PICK name : name = declared[i]
  OBVIOUS
<1>3. Named(name)' = Named(name)
  BY SameFiles
<1>4. PICK p : p = Named(name)
  OBVIOUS
<1>5. SlotOf(p)' = SlotOf(p)
  BY SameFiles
<1> QED
  BY <1>1, <1>2, <1>3, <1>4, <1>5, Zenon

LEMMA SameSlots ==
  ASSUME SlotsInv, phase' = phase, providers' = providers, model' = model,
         slots' = slots
  PROVE  SlotsInv'
<1>1. declared' = declared /\ CanExpand' = CanExpand
  BY SameFiles
<1>2. ASSUME NEW i \in DOMAIN declared
      PROVE  SlotOf(Named(declared[i]))' = SlotOf(Named(declared[i]))
  BY SameSlotOf
<1>3. CASE phase = "serving"
  BY <1>1, <1>2, <1>3, Zenon DEF SlotsInv
<1>4. CASE phase # "serving"
  BY <1>4 DEF SlotsInv
<1> QED
  BY <1>3, <1>4

LEMMA SameModel ==
  ASSUME ModelInv, phase' = phase \/ phase' # "providers",
         providers' = providers, model' = model
  PROVE  ModelInv'
BY DEF ModelInv, kindSoFar, Has, Names

LEMMA SameAnswers ==
  ASSUME slots' = slots, NEW r, request' = r
  PROVE  Answer(request)' = Answer(r)
BY Zenon DEF Answer, Reason, checkDims, kindSlots, mediaSlots, slotsWithinContext

-----------------------------------------------------------------------------
(* Before the slots have been made nobody has asked.                       *)
LEMMA NotAsked ==
  ASSUME CatalogInv, phase # "serving"
  PROVE  slots = << >> /\ request = Empty
BY DEF CatalogInv, SlotsInv, AnswerInv

(* An answer stands as long as the slots do.                               *)
LEMMA KeepsAnswer ==
  ASSUME CatalogInv, slots' = slots, phase' = phase, request' = request,
         answer' = answer
  PROVE  AnswerInv'
<1> SUFFICES ASSUME request' # Empty
             PROVE  /\ phase' = "serving" /\ request' \in Requests
                    /\ answer' = Answer(request)'
  BY Zenon DEF AnswerInv
<1>1. phase = "serving" /\ request \in Requests /\ answer = Answer(request)
  BY DEF CatalogInv, AnswerInv
<1>2. PICK r : r = request
  OBVIOUS
<1>3. Answer(request)' = Answer(r)
  BY <1>2, SameAnswers
<1> QED
  BY <1>1, <1>2, <1>3, Zenon

(* The steps, one by one.                                                  *)
LEMMA RefuseKeeps ==
  ASSUME CatalogInv, phase # "serving", Refuse
  PROVE  CatalogInv'
<1>1. /\ phase' = "refused" /\ providers' = providers /\ model' = model
      /\ slots' = slots /\ noTools' = noTools /\ request' = request
  BY DEF Refuse
<1>2. ProvidersInv'
  BY <1>1 DEF CatalogInv, ProvidersInv
<1>3. ModelInv'
  BY <1>1, SameModel DEF CatalogInv
<1>4. SlotsInv' /\ AnswerInv'
  BY <1>1, NotAsked DEF SlotsInv, AnswerInv, Empty
<1> QED
  BY <1>1, <1>2, <1>3, <1>4 DEF CatalogInv

LEMMA ReadProviderKeeps ==
  ASSUME CatalogInv, NEW p \in ProviderEntries, ReadProvider(p)
  PROVE  CatalogInv'
<1>1. /\ phase = "providers" /\ phase' = phase /\ model' = model
      /\ slots' = slots /\ noTools' = noTools /\ request' = request
      /\ providers' = Append(providers, p) /\ Len(providers) < MaxProviders
      /\ p.name \notin Names
  BY DEF ReadProvider
<1>2. providers \in Seq(ProviderEntries)
  BY DEF CatalogInv, ProvidersInv
<1>3. ProvidersInv'
  <2>1. /\ providers' \in Seq(ProviderEntries)
        /\ Len(providers') = Len(providers) + 1
        /\ DOMAIN providers = 1..Len(providers)
        /\ DOMAIN providers' = 1..Len(providers')
        /\ \A i \in 1..Len(providers) : providers'[i] = providers[i]
        /\ providers'[Len(providers) + 1] = p
    BY <1>1, <1>2
  <2>2. Len(providers) \in Nat
    BY <1>2
  <2>3. Len(providers') <= MaxProviders
    BY <1>1, <2>1, <2>2, CatalogAssumption
  <2>4. \A i \in DOMAIN providers : p.name # providers[i].name
    BY <1>1 DEF Names
  <2>5. ASSUME NEW i \in DOMAIN providers', NEW j \in DOMAIN providers',
               providers'[i].name = providers'[j].name
        PROVE  i = j
    <3>1. /\ i \in DOMAIN providers \/ i = Len(providers) + 1
          /\ j \in DOMAIN providers \/ j = Len(providers) + 1
      BY <2>1, <2>2
    <3> QED
      BY <2>1, <2>4, <2>5, <3>1 DEF CatalogInv, ProvidersInv
  <2> QED
    BY <2>1, <2>3, <2>5 DEF ProvidersInv
<1>4. ModelInv'
  <2>1. DOMAIN model = {}
    BY <1>1 DEF CatalogInv, ModelInv
  <2>2. DOMAIN model' = {}
    BY <1>1, <2>1
  <2> QED
    BY <2>2 DEF ModelInv, Has
<1>5. SlotsInv' /\ AnswerInv'
  BY <1>1, NotAsked DEF SlotsInv, AnswerInv, Empty
<1> QED
  BY <1>1, <1>3, <1>4, <1>5 DEF CatalogInv

(* What a valid field is, key by key.                                      *)
LEMMA ValidFieldIs ==
  ASSUME NEW key, NEW value, ValidField(key, value)
  PROVE  /\ key = "kind" => value \in Kinds
         /\ key = "providers" => Range(value) \subseteq Names
         /\ key = "dims" => value # 0
         /\ key \notin Structural => key \in limitNames(kindSoFar)
<1>1. key = "kind" => value \in Kinds
  BY DEF ValidField
<1>2. key = "providers" => Range(value) \subseteq Names
  BY DEF ValidField
<1>3. key = "dims" => value # 0
  BY DEF ValidField
<1>4. key \notin Structural => key \in limitNames(kindSoFar)
  BY DEF ValidField, maybeLimit, Structural
<1> QED
  BY <1>1, <1>2, <1>3, <1>4

(* Before the kind is known nothing is a limit.                            *)
LEMMA NoLimitsYet ==
  ASSUME ~Has("kind")
  PROVE  limitNames(kindSoFar) = {}
BY DEF kindSoFar, limitNames, Kinds

LEMMA ReadFieldKeeps ==
  ASSUME CatalogInv, NEW f \in ModelFields, ReadField(f.key, f.value)
  PROVE  CatalogInv'
<1> DEFINE key == f.key
           value == f.value
<1>0. CASE ~ValidField(key, value)
  BY <1>0, RefuseKeeps DEF ReadField
<1>1. CASE ValidField(key, value)
  <2>1. /\ phase = "model" /\ phase' = phase /\ providers' = providers
        /\ slots' = slots /\ noTools' = noTools /\ request' = request
        /\ key \notin DOMAIN model
        /\ model' = [k \in DOMAIN model \cup {key} |->
                        IF k = key THEN value ELSE model[k]]
    BY <1>1 DEF ReadField, Has
  <2>2. /\ DOMAIN model' = DOMAIN model \cup {key}
        /\ model'[key] = value
        /\ \A k \in DOMAIN model : model'[k] = model[k]
    BY <2>1
  <2>3. ProvidersInv'
    BY <2>1 DEF CatalogInv, ProvidersInv
  <2>4. ModelInv'
    <3>0. key = "providers" => value \in Seq(STRING)
      BY CatalogAssumption
    <3> HIDE DEF key, value
    <3>1. \A k : Has(k)' <=> Has(k) \/ k = key
      BY <2>2 DEF Has
    <3>2. ASSUME key # "kind" PROVE kindSoFar' = kindSoFar
      BY <2>2, <3>1, <3>2 DEF kindSoFar, Has
    <3>3. Has("kind")' => model'["kind"] \in Kinds
      BY <1>1, <2>2, <3>1, ValidFieldIs DEF CatalogInv, ModelInv, Has
    <3>4. Has("providers")' => /\ model'["providers"] \in Seq(STRING)
                               /\ Range(model'["providers"]) \subseteq Names
      BY <1>1, <2>2, <3>0, <3>1, ValidFieldIs DEF CatalogInv, ModelInv, Has
    <3>5. Has("dims")' => model'["dims"] # 0
      BY <1>1, <2>2, <3>1, ValidFieldIs DEF CatalogInv, ModelInv, Has
    <3>6. DOMAIN model \ Structural \subseteq limitNames(kindSoFar)
      BY DEF CatalogInv, ModelInv
    <3>7. ASSUME NEW k \in DOMAIN model' \ Structural
          PROVE  k \in limitNames(kindSoFar)'
      <4>1. CASE key = "kind"
        BY <2>1, <2>2, <3>6, <3>7, <4>1, NoLimitsYet DEF Structural, Has
      <4>2. CASE key # "kind"
        <5>1. limitNames(kindSoFar)' = limitNames(kindSoFar)
          BY <3>2, <4>2 DEF limitNames
        <5> QED
          BY <1>1, <2>2, <3>6, <3>7, <5>1, ValidFieldIs
      <4> QED
        BY <4>1, <4>2
    <3>8. Names' = Names
      BY <2>1 DEF Names
    <3> QED
      BY <2>1, <3>3, <3>4, <3>5, <3>7, <3>8 DEF ModelInv
  <2>5. SlotsInv' /\ AnswerInv'
    BY <2>1, NotAsked DEF SlotsInv, AnswerInv, Empty
  <2> QED
    BY <2>1, <2>3, <2>4, <2>5 DEF CatalogInv
<1> QED
  BY <1>0, <1>1

LEMMA ExpandKeeps ==
  ASSUME CatalogInv, expandSlots
  PROVE  CatalogInv'
<1>0. CASE ~CanExpand
  BY <1>0, RefuseKeeps DEF expandSlots
<1>1. CASE CanExpand
  <2>1. /\ phase = "model" /\ phase' = "serving" /\ providers' = providers
        /\ model' = model /\ noTools' = noTools /\ request' = request
        /\ slots' = [i \in DOMAIN declared |-> SlotOf(Named(declared[i]))]
    BY <1>1 DEF expandSlots
  <2>2. ProvidersInv'
    BY <2>1 DEF CatalogInv, ProvidersInv
  <2>3. ModelInv'
    BY <2>1, SameModel DEF CatalogInv
  <2>4. SlotsInv'
    <3>1. declared' = declared /\ CanExpand' = CanExpand
      BY <2>1, SameFiles
    <3>2. ASSUME NEW i \in DOMAIN declared
          PROVE  SlotOf(Named(declared[i]))' = SlotOf(Named(declared[i]))
      BY <2>1, SameSlotOf
    <3> QED
      BY <1>1, <2>1, <3>1, <3>2, Zenon DEF SlotsInv
  <2>5. AnswerInv'
    BY <2>1, NotAsked DEF AnswerInv, Empty
  <2> QED
    BY <2>1, <2>2, <2>3, <2>4, <2>5 DEF CatalogInv
<1> QED
  BY <1>0, <1>1

LEMMA AskKeeps ==
  ASSUME CatalogInv, NEW r \in Requests, Ask(r)
  PROVE  CatalogInv'
<1>1. /\ phase = "serving" /\ phase' = phase /\ providers' = providers
      /\ model' = model /\ slots' = slots /\ noTools' = noTools
      /\ request' = r /\ answer' = Answer(r)
  BY DEF Ask
<1>2. ProvidersInv'
  BY <1>1 DEF CatalogInv, ProvidersInv
<1>3. ModelInv' /\ SlotsInv'
  BY <1>1, SameModel, SameSlots DEF CatalogInv
<1>4. AnswerInv'
  <2>1. Answer(request)' = Answer(r)
    BY <1>1, SameAnswers
  <2> QED
    BY <1>1, <2>1, Zenon DEF AnswerInv
<1> QED
  BY <1>1, <1>2, <1>3, <1>4 DEF CatalogInv

(* A step that touches none of it, a probe's answer included.             *)
LEMMA RestKeeps ==
  ASSUME CatalogInv, phase' = phase, providers' = providers, model' = model,
         slots' = slots, noTools' \in BOOLEAN, request' = request,
         answer' = answer
  PROVE  CatalogInv'
<1>1. ProvidersInv'
  BY DEF CatalogInv, ProvidersInv
<1>2. ModelInv' /\ SlotsInv'
  BY SameModel, SameSlots DEF CatalogInv
<1>3. AnswerInv'
  BY KeepsAnswer
<1> QED
  BY <1>1, <1>2, <1>3 DEF CatalogInv

LEMMA CatalogStep == CatalogInv /\ [CatalogNext]_catalogVars => CatalogInv'
<1> SUFFICES ASSUME CatalogInv, [CatalogNext]_catalogVars
             PROVE  CatalogInv'
  OBVIOUS
<1>0. noTools \in BOOLEAN
  BY DEF CatalogInv
<1>1. ASSUME NEW p \in ProviderEntries, ReadProvider(p) PROVE CatalogInv'
  BY <1>1, ReadProviderKeeps
<1>2. ASSUME NEW p \in ProviderEntries, RefuseProvider(p) PROVE CatalogInv'
  BY <1>2, RefuseKeeps DEF RefuseProvider
<1>3. CASE ProvidersEnd
  <2>1. CASE providers = << >>
    BY <1>3, <2>1, RefuseKeeps DEF ProvidersEnd
  <2>2. CASE providers # << >>
    <3>1. /\ phase = "providers" /\ phase' = "model" /\ providers' = providers
          /\ model' = model /\ slots' = slots /\ noTools' = noTools
          /\ request' = request
      BY <1>3, <2>2 DEF ProvidersEnd
    <3>2. ProvidersInv'
      BY <3>1 DEF CatalogInv, ProvidersInv
    <3>3. ModelInv'
      BY <3>1, SameModel DEF CatalogInv
    <3>4. SlotsInv' /\ AnswerInv'
      BY <3>1, NotAsked DEF SlotsInv, AnswerInv, Empty
    <3> QED
      BY <3>1, <3>2, <3>3, <3>4 DEF CatalogInv
  <2> QED
    BY <2>1, <2>2
<1>4. ASSUME NEW f \in ModelFields, ReadField(f.key, f.value)
      PROVE  CatalogInv'
  BY <1>4, ReadFieldKeeps
<1>5. CASE expandSlots
  BY <1>5, ExpandKeeps
<1>6. ASSUME NEW r \in Requests, Ask(r) PROVE CatalogInv'
  BY <1>6, AskKeeps
<1>7. ASSUME NEW supportsTools \in BOOLEAN, RecordCapability(supportsTools)
      PROVE  CatalogInv'
  BY <1>7, RestKeeps DEF RecordCapability
<1>8. CASE Refused \/ UNCHANGED catalogVars
  BY <1>0, <1>8, RestKeeps DEF Refused, catalogVars
<1> QED
  BY <1>1, <1>2, <1>3, <1>4, <1>5, <1>6, <1>7, <1>8, Zenon DEF CatalogNext
-----------------------------------------------------------------------------
(* What serves: the slots are those of the files, one by one.              *)
LEMMA NameIsThere ==
  ASSUME ProvidersInv, NEW name \in Names
  PROVE  \E j \in DOMAIN providers :
            providers[j].name = name /\ Named(name) = providers[j]
<1>1. PICK j \in DOMAIN providers : providers[j].name = name
  BY DEF Names
<1> QED
  BY <1>1, NamedIs

(* The declared names are those of providers.                              *)
LEMMA DeclaredIs ==
  ASSUME CatalogInv
  PROVE  /\ declared \in Seq(STRING)
         /\ \A i \in DOMAIN declared : declared[i] \in Names
<1>1. CASE Has("providers")
  <2>1. /\ declared \in Seq(STRING) /\ Range(declared) \subseteq Names
    BY <1>1 DEF CatalogInv, ModelInv, declared
  <2> QED
    BY <2>1, Zenon DEF Range
<1>2. CASE ~Has("providers")
  <2>1. declared = << >>
    BY <1>2 DEF declared
  <2> QED
    BY <2>1
<1> QED
  BY <1>1, <1>2

LEMMA SlotIs ==
  ASSUME CatalogInv, phase = "serving"
  PROVE  /\ Has("kind") /\ model.kind \in Kinds /\ kindSoFar = model.kind
         /\ DOMAIN slots = DOMAIN declared
         /\ \A i \in DOMAIN slots : slots[i] = SlotOf(Named(declared[i]))
         /\ \A i \in DOMAIN slots : Named(declared[i]).name = declared[i]
<1>1. SlotsInv /\ ModelInv /\ ProvidersInv
  BY DEF CatalogInv
<1>2. CanExpand /\ slots = [i \in DOMAIN declared |-> SlotOf(Named(declared[i]))]
  BY <1>1 DEF SlotsInv
<1>3. Has("kind") /\ model.kind \in Kinds /\ kindSoFar = model.kind
  BY <1>1, <1>2 DEF CanExpand, ModelInv, kindSoFar
<1>4. \A i \in DOMAIN declared : Named(declared[i]).name = declared[i]
  <2> SUFFICES ASSUME NEW i \in DOMAIN declared
               PROVE  Named(declared[i]).name = declared[i]
    OBVIOUS
  <2>1. PICK name : name = declared[i]
    OBVIOUS
  <2>2. name \in Names
    BY <2>1, DeclaredIs
  <2> QED
    BY <1>1, <2>1, <2>2, NameIsThere
<1> QED
  BY <1>2, <1>3, <1>4, Zenon

LEMMA TypesFromInv == CatalogInv => CatalogTypeOK
<1> SUFFICES ASSUME CatalogInv PROVE CatalogTypeOK
  OBVIOUS
<1>1. /\ phase \in { "providers", "model", "serving", "refused" }
      /\ providers \in Seq(ProviderEntries) /\ Len(providers) <= MaxProviders
  BY DEF CatalogInv, ProvidersInv
<1>2. noTools \in BOOLEAN
  BY DEF CatalogInv
<1>3. ASSUME NEW i \in DOMAIN slots PROVE slots[i].kind \in Kinds
  <2>1. phase = "serving"
    BY <1>3, NotAsked
  <2> QED
    BY <2>1, SlotIs DEF SlotOf
<1>4. ASSUME phase = "serving"
      PROVE  /\ DOMAIN model \ Structural \subseteq limitNames(model.kind)
             /\ Has("media") \/ Has("thinking") => model.kind = "chat"
  BY <1>4, SlotIs DEF CatalogInv, ModelInv, SlotsInv, CanExpand
<1> QED
  BY <1>1, <1>2, <1>3, <1>4 DEF CatalogTypeOK

-----------------------------------------------------------------------------
(* The listing.                                                            *)
LEMMA MediaOfSlot ==
  ASSUME CatalogInv, phase = "serving", NEW i \in DOMAIN slots
  PROVE  /\ slots[i].kind = model.kind
         /\ slots[i].media # {} => model.kind = "chat"
         /\ slots[i].tools => model.kind = "chat"
         /\ slots[i].thinking => model.kind = "chat"
<1>1. PICK p : p = Named(declared[i])
  OBVIOUS
<1>2. slots[i] = SlotOf(p) /\ kindSoFar = model.kind
  BY <1>1, SlotIs
<1>3. slots[i].kind = model.kind
  BY <1>2 DEF SlotOf
<1>4. slots[i].media # {} => model.kind = "chat"
  BY <1>2 DEF SlotOf, SlotMedia
<1>5. slots[i].tools => model.kind = "chat"
  <2>1. SlotOf(p).tools = (kindSoFar = "chat")
    BY Zenon DEF SlotOf
  <2> QED
    BY <1>2, <2>1, Zenon
<1>6. slots[i].thinking => Has("thinking")
  <2>1. SlotOf(p).thinking = (Has("thinking") /\ model.thinking)
    BY Zenon DEF SlotOf
  <2> QED
    BY <1>2, <2>1, Zenon
<1>7. CanExpand
  BY DEF CatalogInv, SlotsInv
<1>8. Has("thinking") => model.kind = "chat"
  BY <1>7 DEF CanExpand
<1> QED
  BY <1>3, <1>4, <1>5, <1>6, <1>8

LEMMA ListingFromInv == CatalogInv => ListingHonest
<1> SUFFICES ASSUME CatalogInv, phase = "serving"
             PROVE  /\ \A medium \in Media :
                         LET alone == [route |-> "chat", parts |-> << medium >>,
                                       maxTokens |-> 0, dims |-> 0]
                         IN medium \in modelInfos.media <=> mediaSlots(alone) # {}
                    /\ modelInfos.tools => model.kind = "chat" /\ ~noTools
                    /\ modelInfos.thinking => model.kind = "chat"
  BY DEF ListingHonest
<1>1. ASSUME NEW medium \in Media,
             NEW alone, alone = [route |-> "chat", parts |-> << medium >>,
                                 maxTokens |-> 0, dims |-> 0]
      PROVE  medium \in modelInfos.media <=> mediaSlots(alone) # {}
  <2>1. alone.route = "chat" /\ alone.parts = << medium >>
    BY <1>1
  <2>2. HasMediaInput(alone) = { medium }
    BY <1>1, <2>1 DEF HasMediaInput, Range
  <2>3. kindOf(alone.route) = "chat"
    BY <2>1 DEF kindOf, Kinds
  <2>4. \A i \in DOMAIN slots :
           medium \in slots[i].media => slots[i].kind = "chat"
    BY MediaOfSlot
  <2>5. \A i : i \in mediaSlots(alone) <=>
           i \in DOMAIN slots /\ slots[i].kind = "chat" /\ medium \in slots[i].media
    BY <2>1, <2>2, <2>3 DEF mediaSlots, kindSlots
  <2>6. medium \in modelInfos.media <=> \E i \in DOMAIN slots : medium \in slots[i].media
    BY Zenon DEF modelInfos
  <2> QED
    BY <2>4, <2>5, <2>6
<1>2. ASSUME modelInfos.tools PROVE model.kind = "chat" /\ ~noTools
  <2>1. PICK i \in DOMAIN slots : slots[i].tools
    BY <1>2 DEF modelInfos
  <2>2. ~noTools
    BY <1>2 DEF modelInfos
  <2> QED
    BY <2>1, <2>2, MediaOfSlot
<1>3. ASSUME modelInfos.thinking PROVE model.kind = "chat"
  <2>1. PICK i \in DOMAIN slots : slots[i].thinking
    BY <1>3 DEF modelInfos
  <2> QED
    BY <2>1, MediaOfSlot
<1> QED
  BY <1>1, <1>2, <1>3
-----------------------------------------------------------------------------
(* The gates, slot by slot, against the files.                             *)
LEMMA PassesKind ==
  ASSUME CatalogInv, phase = "serving", NEW r \in Requests
  PROVE  kindSlots(r) = IF r.route = model.kind THEN DOMAIN declared ELSE {}
<1>1. r.route \in Kinds
  BY CatalogAssumption
<1>2. kindOf(r.route) = r.route
  BY <1>1 DEF kindOf
<1>3. \A i \in DOMAIN slots : slots[i].kind = model.kind
  BY MediaOfSlot
<1> QED
  BY <1>2, <1>3, SlotIs DEF kindSlots

LEMMA PassesMedia ==
  ASSUME CatalogInv, phase = "serving", NEW r \in Requests,
         NEW i \in DOMAIN declared
  PROVE  i \in mediaSlots(r) <=>
           r.route = model.kind /\ Takes(Named(declared[i]), r)
<1>1. i \in kindSlots(r) <=> r.route = model.kind
  BY PassesKind
<1>2. PICK p : p = Named(declared[i])
  OBVIOUS
<1>3. slots[i] = SlotOf(p) /\ kindSoFar = model.kind
  BY <1>2, SlotIs
<1>4. model.kind = "chat" =>
        slots[i].media = adapterCaps[p.adapter]
                           \cap (IF Has("media") THEN model.media ELSE Media)
  BY <1>3 DEF SlotOf, SlotMedia
<1>5. kindSupports(model.kind, p.adapter)
  BY <1>2 DEF CatalogInv, SlotsInv, CanExpand
<1>6. r.route = model.kind => r.route \in {"chat"} \cup adapterCaps[p.adapter]
  BY <1>5 DEF kindSupports
<1> QED
  BY <1>1, <1>2, <1>4, <1>6 DEF mediaSlots, Takes

LEMMA PassesContext ==
  ASSUME CatalogInv, phase = "serving", NEW r \in Requests,
         NEW i \in DOMAIN declared
  PROVE  i \in slotsWithinContext(r) <=>
           i \in mediaSlots(r) /\ HasRoom(Named(declared[i]), r)
<1>1. PICK p : p = Named(declared[i])
  OBVIOUS
<1>2. slots[i] = SlotOf(p)
  BY <1>1, SlotIs
<1>3. EffectiveCtx(slots[i])
        = IF p.ctx # 0 THEN p.ctx ELSE IF Has("ctx") THEN model.ctx ELSE 0
  BY <1>2 DEF SlotOf, EffectiveCtx
<1> QED
  BY <1>1, <1>3 DEF slotsWithinContext, HasRoom

LEMMA PassesDims ==
  ASSUME CatalogInv, phase = "serving", NEW r \in Requests, DOMAIN declared # {}
  PROVE  checkDims(r) <=> DimsFit(r)
<1> DEFINE dims == IF Has("dims") THEN model.dims ELSE 0
<1>1. \A i \in DOMAIN slots : slots[i].dims = dims
  <2> SUFFICES ASSUME NEW i \in DOMAIN slots PROVE slots[i].dims = dims
    OBVIOUS
  <2>1. PICK p : p = Named(declared[i])
    OBVIOUS
  <2> QED
    BY <2>1, SlotIs DEF SlotOf
<1>2. Has("dims") => dims # 0 /\ dims = model.dims
  BY DEF CatalogInv, ModelInv
<1>3. ~Has("dims") => dims = 0
  OBVIOUS
<1>4. \E i : i \in DOMAIN slots
  BY SlotIs
<1> HIDE DEF dims
<1>5. { slots[i].dims : i \in DOMAIN slots } = { dims }
  BY <1>1, <1>4
<1> QED
  BY <1>2, <1>3, <1>5 DEF checkDims, DimsFit

(* Whoever is not asked about sizes is not refused for them.               *)
LEMMA NoSlotNoDims ==
  ASSUME DOMAIN slots = {}, NEW r
  PROVE  checkDims(r)
BY DEF checkDims

(* The reasons, in the order of the gates.                                 *)
LEMMA ReasonIs ==
  ASSUME NEW r
  PROVE  /\ Reason(r) = "none" <=> checkDims(r) /\ slotsWithinContext(r) # {}
         /\ Reason(r) = "dimensions" => ~checkDims(r)
         /\ Reason(r) = "endpoint" => kindSlots(r) = {}
         /\ Reason(r) = "media" => kindSlots(r) # {} /\ mediaSlots(r) = {}
         /\ Reason(r) = "context" => mediaSlots(r) # {}
<1>1. /\ kindSlots(r) = {} => mediaSlots(r) = {}
      /\ mediaSlots(r) = {} => slotsWithinContext(r) = {}
  BY DEF mediaSlots, slotsWithinContext
<1>2. CASE ~checkDims(r)
  <2>1. Reason(r) = "dimensions"
    BY <1>2, Zenon DEF Reason
  <2> QED
    BY <1>2, <2>1
<1>3. CASE checkDims(r) /\ kindSlots(r) = {}
  <2>1. Reason(r) = "endpoint"
    BY <1>1, <1>3, Zenon DEF Reason
  <2> QED
    BY <1>1, <1>3, <2>1
<1>4. CASE checkDims(r) /\ kindSlots(r) # {} /\ mediaSlots(r) = {}
  <2>1. Reason(r) = "media"
    BY <1>4, Zenon DEF Reason
  <2> QED
    BY <1>1, <1>4, <2>1
<1>5. CASE checkDims(r) /\ mediaSlots(r) # {} /\ slotsWithinContext(r) = {}
  <2>1. Reason(r) = "context"
    BY <1>1, <1>5, Zenon DEF Reason
  <2> QED
    BY <1>1, <1>5, <2>1
<1>6. CASE checkDims(r) /\ slotsWithinContext(r) # {}
  <2>1. Reason(r) = "none"
    BY <1>1, <1>6, Zenon DEF Reason
  <2> QED
    BY <1>1, <1>6, <2>1
<1> QED
  BY <1>1, <1>2, <1>3, <1>4, <1>5, <1>6

(* The registry finds what the file declares.                              *)
LEMMA LookupIs ==
  ASSUME ProvidersInv, NEW name \in Names, OwnName(name)
  PROVE  Lookup(name) = providerProtocol(Named(name).adapter)
<1>1. PICK j \in DOMAIN providers :
        providers[j].name = name /\ Named(name) = providers[j]
  BY NameIsThere
<1>2. CASE Slug[name] \in builtin
  <2>1. Slug[name] = providerProtocol(Named(name).adapter)
    BY <1>2 DEF OwnName
  <2> QED
    BY <1>2, <2>1 DEF Lookup
<1>3. CASE Slug[name] \notin builtin
  <2> DEFINE same == { i \in DOMAIN providers :
                         Slug[providers[i].name] = Slug[name] }
             last == CHOOSE i \in same : \A k \in same : k <= i
  <2>1. same = { j }
    <3>1. j \in same
      BY <1>1
    <3>2. ASSUME NEW i \in same PROVE i = j
      <4>1. providers[i].name \in Names
        BY DEF Names
      <4>2. providers[i].name = name
        BY <4>1 DEF OwnName
      <4> QED
        BY <1>1, <4>2 DEF ProvidersInv
    <3> QED
      BY <3>1, <3>2
  <2>2. j <= j
    BY DEF ProvidersInv
  <2>3. last = j
    <3> HIDE DEF same
    <3> QED
      BY <2>1, <2>2
  <2>4. Lookup(name) = providerProtocol(providers[last].adapter)
    BY <1>3 DEF Lookup
  <2> QED
    BY <1>1, <2>3, <2>4
<1> QED
  BY <1>2, <1>3

LEMMA InOrderOfNone ==
  ASSUME NEW seq
  PROVE  InOrder(seq, {}) = << >>
BY FS_EmptySet DEF InOrder

LEMMA ChosenFromInv == CatalogInv => ChosenCanServe
<1> SUFFICES ASSUME CatalogInv, request # Empty PROVE ChosenCanServe
  BY DEF ChosenCanServe
<1> DEFINE fits == { i \in DOMAIN declared : Fits(Named(declared[i]), request) }
           taken == { i \in DOMAIN declared : Takes(Named(declared[i]), request) }
<1>1. phase = "serving" /\ request \in Requests
  BY DEF CatalogInv, AnswerInv
<1>2. PICK r \in Requests : r = request /\ answer = Answer(r)
  BY DEF CatalogInv, AnswerInv
<1>3. answer.error = Reason(r)
  BY <1>2 DEF Answer
<1>4. checkDims(r) => fits = slotsWithinContext(r)
  <2> SUFFICES ASSUME checkDims(r) PROVE fits = slotsWithinContext(r)
    OBVIOUS
  <2>1. ASSUME NEW i \in DOMAIN declared
        PROVE  Fits(Named(declared[i]), r) <=> i \in slotsWithinContext(r)
    <3>1. DimsFit(r)
      BY <1>1, PassesDims
    <3>2. i \in slotsWithinContext(r) <=>
            /\ r.route = model.kind
            /\ Takes(Named(declared[i]), r) /\ HasRoom(Named(declared[i]), r)
      BY <1>1, PassesMedia, PassesContext
    <3> QED
      BY <3>1, <3>2 DEF Fits
  <2>2. slotsWithinContext(r) \subseteq DOMAIN declared
    BY <1>1, SlotIs DEF slotsWithinContext, mediaSlots, kindSlots
  <2> QED
    BY <1>2, <2>1, <2>2
<1>5. ~checkDims(r) => fits = {}
  <2> SUFFICES ASSUME ~checkDims(r), NEW i \in DOMAIN declared
               PROVE  ~Fits(Named(declared[i]), r)
    BY <1>2
  <2>1. ~DimsFit(r)
    BY <1>1, PassesDims
  <2> QED
    BY <2>1 DEF Fits
<1>6. answer.chosen = InOrder(declared, fits)
  <2>1. CASE checkDims(r)
    <3>1. answer.chosen = InOrder([i \in DOMAIN slots |-> slots[i].provider],
                                  slotsWithinContext(r))
      BY <1>2, <2>1 DEF Answer
    <3>2. \A i \in DOMAIN slots : slots[i].provider = declared[i]
      <4> SUFFICES ASSUME NEW i \in DOMAIN slots
                   PROVE  slots[i].provider = declared[i]
        OBVIOUS
      <4>1. PICK p : p = Named(declared[i])
        OBVIOUS
      <4> QED
        BY <1>1, <4>1, SlotIs DEF SlotOf
    <3>3. [i \in DOMAIN slots |-> slots[i].provider] = declared
      <4>1. declared = [i \in DOMAIN declared |-> declared[i]]
        BY DeclaredIs
      <4> QED
        BY <1>1, <3>2, <4>1, SlotIs
    <3> QED
      BY <1>4, <2>1, <3>1, <3>3, Zenon
  <2>2. CASE ~checkDims(r)
    <3>1. answer.chosen = << >>
      BY <1>2, <2>2 DEF Answer
    <3>2. fits = {}
      BY <1>5, <2>2
    <3> HIDE DEF fits
    <3> QED
      BY <3>1, <3>2, InOrderOfNone
  <2> QED
    BY <2>1, <2>2
<1>7. \A i \in fits : OwnName(declared[i]) =>
         Lookup(declared[i]) = providerProtocol(Named(declared[i]).adapter)
  <2> SUFFICES ASSUME NEW i \in DOMAIN declared, OwnName(declared[i])
               PROVE  Lookup(declared[i])
                        = providerProtocol(Named(declared[i]).adapter)
    OBVIOUS
  <2>1. PICK name : name = declared[i]
    OBVIOUS
  <2>2. name \in Names /\ OwnName(name)
    BY <2>1, DeclaredIs
  <2>3. Lookup(name) = providerProtocol(Named(name).adapter)
    BY <2>2, LookupIs DEF CatalogInv
  <2> QED
    BY <2>1, <2>3
<1>8. answer.error = "none" <=> fits # {}
  BY <1>3, <1>4, <1>5, ReasonIs
<1>9. answer.error = "dimensions" => ~DimsFit(request)
  <2> SUFFICES ASSUME answer.error = "dimensions" PROVE ~DimsFit(r)
    BY <1>2
  <2>1. ~checkDims(r)
    BY <1>3, ReasonIs
  <2>2. DOMAIN declared # {}
    BY <1>1, <2>1, SlotIs, NoSlotNoDims
  <2> QED
    BY <1>1, <2>1, <2>2, PassesDims
<1>10. answer.error = "endpoint" =>
         declared = << >> \/ request.route # model.kind
  <2> SUFFICES ASSUME answer.error = "endpoint", r.route = model.kind
               PROVE  declared = << >>
    BY <1>2
  <2>1. kindSlots(r) = {}
    BY <1>3, ReasonIs
  <2>2. DOMAIN declared = {}
    BY <1>1, <2>1, PassesKind
  <2> QED
    BY <2>2, DeclaredIs, EmptySeq
<1>11. answer.error = "media" => taken = {}
  <2> SUFFICES ASSUME answer.error = "media", NEW i \in DOMAIN declared
               PROVE  ~Takes(Named(declared[i]), r)
    BY <1>2
  <2>1. kindSlots(r) # {} /\ mediaSlots(r) = {}
    BY <1>3, ReasonIs
  <2>2. r.route = model.kind
    BY <1>1, <2>1, PassesKind
  <2> QED
    BY <1>1, <2>1, <2>2, PassesMedia
<1>12. answer.error = "context" => taken # {}
  <2> SUFFICES ASSUME answer.error = "context" PROVE taken # {}
    OBVIOUS
  <2>1. PICK i : i \in mediaSlots(r)
    BY <1>3, ReasonIs
  <2>2. i \in DOMAIN declared
    BY <1>1, <2>1, SlotIs DEF mediaSlots, kindSlots
  <2>3. Takes(Named(declared[i]), r)
    BY <1>1, <2>1, <2>2, PassesMedia
  <2> QED
    BY <1>2, <2>2, <2>3
<1> QED
  BY <1>6, <1>7, <1>8, <1>9, <1>10, <1>11, <1>12, Zenon DEF ChosenCanServe

-----------------------------------------------------------------------------
LEMMA CatalogHolds == CatalogSpec => []CatalogInv
BY CatalogStarts, CatalogStep, PTL DEF CatalogSpec

(* In whatever order the fields of a model come, an accepted one has no    *)
(* limit or restriction that its kind ignores (load.go:386-397, 404-426).  *)
THEOREM CatalogTypeCorrect == CatalogSpec => []CatalogTypeOK
BY CatalogHolds, TypesFromInv, PTL

(* Loader, gates and registry agree: a request goes to exactly the         *)
(* declared providers that the files say can serve it, in their order, and *)
(* a refusal gives a reason that holds (proxy.go:206-221, 287-397,         *)
(* server.go:316-341, registry.go:119-258).                                *)
THEOREM OnlyTheAbleAreChosen == CatalogSpec => []ChosenCanServe
BY CatalogHolds, ChosenFromInv, PTL

(* What is listed of a model is what its gates let through                 *)
(* (server.go:351-380).                                                    *)
THEOREM ListingMatchesGates == CatalogSpec => []ListingHonest
BY CatalogHolds, ListingFromInv, PTL
=============================================================================
