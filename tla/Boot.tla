--------------------------------- MODULE Boot ---------------------------------
(***************************************************************************)
(* The configuration directory and the processes that write and read it:   *)
(* llm-pico --init, the first start in an empty directory, every later     *)
(* start and every reload (cmd/llm-pico/main.go, internal/config), with    *)
(* the operator who edits the files and a process that may die at any      *)
(* step.                                                                   *)
(*                                                                         *)
(* A file holds the starter text (0), the operator's save of that number,  *)
(* or text that Load refuses.                                              *)
(***************************************************************************)
EXTENDS Integers

CONSTANTS
  MaxEdits,   \* bound: the operator's saves
  Clash       \* the versions of a file and of the next that do not fit
              \* together, as pairs

ASSUME BootAssumption == MaxEdits \in Nat /\ Clash \subseteq Nat \X Nat

VARIABLES
  file,      \* what each file holds
  edits,     \* saves of the operator
  proc,      \* the process: "down", "checking", "writing", "loading", "serving"
  purpose,   \* "init" when started with --init, else "serve"
  at,        \* place in Order of the file being written or read, 0 for none
  created,   \* that file has been created and not yet written
  got,       \* what the load under way has read so far
  config,    \* the configuration in force
  pending,   \* a SIGHUP waits in the channel
  asked,     \* history: a SIGHUP has come since the last save
  edited,    \* history: a save since the load under way began
  half       \* history: an init was cut short, and nobody has saved since

volatile == << proc, purpose, at, created, got, config, pending >>
vars == << file, edits, volatile, asked, edited, half >>

configFiles == << "keys.env", "provider.yaml", "models.yaml" >>
Files == { configFiles[i] : i \in 1..3 }

Absent == -2
Unusable == -1
Starter == 0
Content == Absent..MaxEdits

Nothing == [f \in Files |-> Absent]

(* Load needs every file; provider.yaml must name keys of keys.env, and     *)
(* models.yaml providers of provider.yaml.                                 *)
Fit(c, n) ==
  \A i \in 2..n : << c[configFiles[i - 1]], c[configFiles[i]] >> \notin Clash
Loadable(c) == (\A f \in Files : c[f] >= Starter) /\ Fit(c, 3)

Init ==
  /\ file = Nothing
  /\ edits = 0
  /\ proc = "down" /\ purpose = "serve"
  /\ at = 0 /\ created = FALSE
  /\ got = Nothing /\ config = Nothing
  /\ pending = FALSE
  /\ asked = FALSE /\ edited = FALSE /\ half = FALSE

-----------------------------------------------------------------------------
(* Init: writing the starter configuration.                                *)

IsEmptyConfigDir == file = Nothing

Start ==
  /\ proc = "down"
  /\ purpose' \in { "init", "serve" }
  /\ IF purpose' = "init" \/ IsEmptyConfigDir
       THEN proc' = "checking" /\ at' = 0
       ELSE proc' = "loading" /\ at' = 1
  /\ edited' = FALSE
  /\ UNCHANGED << file, edits, created, got, config, pending, asked, half >>

(* What a process that ends leaves behind, whichever way it ends.          *)
Over ==
  /\ proc' = "down" /\ purpose' = "serve"
  /\ at' = 0 /\ created' = FALSE
  /\ got' = Nothing /\ config' = Nothing
  /\ pending' = FALSE
  /\ asked' = FALSE
  /\ UNCHANGED << file, edits, edited >>

(* A fault to be caught: a directory with a file missing is filled up.      *)
FaultCheck ==
  /\ proc = "checking" /\ \E f \in Files : file[f] = Absent
  /\ proc' = "writing" /\ at' = 1
  /\ UNCHANGED << file, edits, purpose, created, got, config, pending, asked,
                  edited, half >>

Check ==
  /\ proc = "checking" /\ \A f \in Files : file[f] = Absent
  /\ proc' = "writing" /\ at' = 1
  /\ UNCHANGED << file, edits, purpose, created, got, config, pending, asked,
                  edited, half >>

RefuseToOverwrite ==
  /\ proc = "checking" /\ \E f \in Files : file[f] # Absent
  /\ Over
  /\ UNCHANGED half

Create ==
  /\ proc = "writing" /\ ~ created
  /\ file' = [file EXCEPT ![configFiles[at]] = Unusable]
  /\ created' = TRUE
  /\ UNCHANGED << edits, proc, purpose, at, got, config, pending, asked,
                  edited, half >>

Write ==
  /\ proc = "writing" /\ created
  /\ file' = [file EXCEPT ![configFiles[at]] = Starter]
  /\ created' = FALSE
  /\ IF at < 3
       THEN at' = at + 1 /\ UNCHANGED << proc, purpose, edited >>
       ELSE IF purpose = "serve"
              THEN /\ proc' = "loading" /\ at' = 1 /\ edited' = FALSE
                   /\ UNCHANGED purpose
              ELSE /\ proc' = "down" /\ at' = 0 /\ purpose' = "serve"
                   /\ UNCHANGED edited
  /\ UNCHANGED << edits, got, config, pending, asked, half >>

-----------------------------------------------------------------------------
(* Load, at the start and on SIGHUP.                                       *)

Reading == proc = "loading" \/ (proc = "serving" /\ at > 0)

Read ==
  /\ Reading /\ at \in 1..3
  /\ file[configFiles[at]] >= Starter
  /\ got' = [got EXCEPT ![configFiles[at]] = file[configFiles[at]]]
  /\ Fit(got', at)
  /\ at' = at + 1
  /\ UNCHANGED << file, edits, proc, purpose, created, config, pending, asked,
                  edited, half >>

(* A fault to be caught: a reload that fails leaves what it has read in    *)
(* force.                                                                  *)
FaultReadFails ==
  /\ Reading /\ at \in 1..3
  /\ \/ file[configFiles[at]] < Starter
     \/ ~ Fit([got EXCEPT ![configFiles[at]] = file[configFiles[at]]], at)
  /\ \/ proc = "loading" /\ Over
     \/ /\ proc = "serving"
        /\ at' = 0 /\ got' = Nothing /\ config' = got
        /\ UNCHANGED << file, edits, proc, purpose, created, pending, asked,
                        edited >>
  /\ UNCHANGED half

(* A load that fails ends the process that starts; the one that serves     *)
(* keeps what it has.                                                      *)
ReadFails ==
  /\ Reading /\ at \in 1..3
  /\ \/ file[configFiles[at]] < Starter
     \/ ~ Fit([got EXCEPT ![configFiles[at]] = file[configFiles[at]]], at)
  /\ \/ proc = "loading" /\ Over
     \/ /\ proc = "serving"
        /\ at' = 0 /\ got' = Nothing
        /\ UNCHANGED << file, edits, proc, purpose, created, config, pending,
                        asked, edited >>
  /\ UNCHANGED half

(* A fault to be caught: the load is not ended.                            *)
FaultInstall ==
  /\ Reading /\ at = 4
  /\ config' = got
  /\ proc' = "serving"
  /\ at' = at + 1 /\ got' = Nothing
  /\ UNCHANGED << file, edits, purpose, created, pending, asked, edited, half >>

Install ==
  /\ Reading /\ at = 4
  /\ config' = got
  /\ proc' = "serving"
  /\ at' = 0 /\ got' = Nothing
  /\ UNCHANGED << file, edits, purpose, created, pending, asked, edited, half >>

TakeSignal ==
  /\ proc = "serving" /\ at = 0 /\ pending
  /\ pending' = FALSE
  /\ at' = 1
  /\ edited' = FALSE
  /\ UNCHANGED << file, edits, proc, purpose, created, got, config, asked,
                  half >>

-----------------------------------------------------------------------------
(* The operator, and the end of a process.                                 *)

(* A fault to be caught: the channel has no buffer, so a signal that comes *)
(* while the goroutine is busy is lost.                                    *)
FaultHangup ==
  /\ proc = "serving"
  /\ pending' = (pending \/ at = 0)
  /\ asked' = TRUE
  /\ UNCHANGED << file, edits, proc, purpose, at, created, got, config, edited,
                  half >>

(* The channel holds one signal; one that finds it full is dropped.  A     *)
(* process that does not listen yet dies of it, which is Die.              *)
Hangup ==
  /\ proc = "serving"
  /\ pending' = TRUE
  /\ asked' = TRUE
  /\ UNCHANGED << file, edits, proc, purpose, at, created, got, config, edited,
                  half >>

(* The operator saves or deletes a file, but not while Init writes.        *)
Save(f) ==
  /\ edits < MaxEdits /\ proc # "writing"
  /\ edits' = edits + 1
  /\ \E c \in { Absent, Unusable, edits' } :
       c # file[f] /\ file' = [file EXCEPT ![f] = c]
  /\ asked' = FALSE /\ edited' = TRUE /\ half' = FALSE
  /\ UNCHANGED volatile

(* An error other than those above, a signal or a crash.                   *)
Die ==
  /\ proc # "down"
  /\ Over
  /\ half' = (half \/ (proc = "writing" /\ file # Nothing))

Next ==
  \/ Start \/ Check \/ RefuseToOverwrite \/ Create \/ Write
  \/ Read \/ ReadFails \/ Install \/ TakeSignal
  \/ Hangup \/ (\E f \in Files : Save(f)) \/ Die

(* The goroutine that reloads runs, and reading files takes finite time.   *)
Fairness ==
  /\ WF_vars(Read) /\ WF_vars(ReadFails) /\ WF_vars(Install)
  /\ WF_vars(TakeSignal)

Spec == Init /\ [][Next]_vars /\ Fairness

-----------------------------------------------------------------------------
(* The directory, the process and the history keep their types.            *)
TypeOK ==
  /\ file \in [Files -> Content]
  /\ edits \in 0..MaxEdits
  /\ proc \in { "down", "checking", "writing", "loading", "serving" }
  /\ purpose \in { "init", "serve" }
  /\ at \in 0..4 /\ created \in BOOLEAN
  /\ got \in [Files -> Content] /\ config \in [Files -> Content]
  /\ pending \in BOOLEAN
  /\ asked \in BOOLEAN /\ edited \in BOOLEAN /\ half \in BOOLEAN

(* An init that was cut short between its files serves nobody until the    *)
(* operator has put a hand to it, however often the process is started:    *)
(* neither the check for an empty directory nor --init completes it        *)
(* (main.go:96-97, init.go:89-92).                                         *)
HalfInitNeverServes == half => proc # "serving"

(* Whatever reloads fail and whatever the operator does meanwhile, a       *)
(* serving process has a configuration of three readable files that fit    *)
(* together, read from the files as they are unless one was saved during   *)
(* the load (load.go:18-37, main.go:142-152).                              *)
ServesWholeConfiguration ==
  /\ proc = "serving" => Loadable(config)
  /\ Reading /\ at = 4 /\ ~ edited => got = file

(* A SIGHUP after the last save brings what was saved into force, even if  *)
(* it comes during a load that has read the older files: it waits in the   *)
(* channel.  Unless Load refuses it, the process ends or another save is   *)
(* made (main.go:139-156).                                                 *)
HangupTakesEffect ==
  asked ~> (config = file \/ ~ Loadable(file) \/ ~ asked)
=============================================================================
