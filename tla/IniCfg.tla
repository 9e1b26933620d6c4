------------------------------- MODULE IniCfg -------------------------------
(***************************************************************************)
(* The configuration (cfg, inicfg, dialog): processes of the host that     *)
(* share one ini file.  Each has a copy of the settings in memory under a  *)
(* reader-writer lock, a thread that loads the ini and shows the dialog,   *)
(* and threads that copy the settings to open, pack or clean up with them. *)
(* The ini file is shared by nothing but its name: neither a load nor a    *)
(* save of several settings is one step.                                   *)
(***************************************************************************)
EXTENDS Integers, SequencesExt

CONSTANTS
  Procs,       \* processes
  Readers,     \* threads that copy the settings
  ProcOf,      \* the process of a reader
  Raw,         \* for each setting, what may stand in the ini by hand
  Picks,     \* what a user may change in the dialog: functions from settings
  Lifetimes,   \* DLG::cache_lifetimes, without the last
  Unlimited,   \* INT_MAX, the last
  Locale,      \* the language of the user: [full, base], as all languages
  NoLang,      \* the ini names no language
  Setups,      \* what languages there are files for, and which the ini wants
  MaxDialogs,  \* a bound of the model: dialogs of a process
  MaxFaults    \* a bound of the model: changes by hand, and crashes

(* The settings, in the order in which they are read and saved, and in the *)
(* order in which cfg::assign copies them.                                 *)
Order == <<"CompressionLevel", "CacheLifetime", "FileTimeFlags", "FileAttrFlags">>
AssignOrder == <<"CompressionLevel", "FileTimeFlags", "FileAttrFlags", "CacheLifetime">>
Keys == {"CompressionLevel", "CacheLifetime", "FileTimeFlags", "FileAttrFlags"}

ASSUME CfgAssumption ==
  /\ ProcOf \in [Readers -> Procs]
  /\ \A k \in Keys : Raw[k] \subseteq Int
  /\ \A c \in Picks : DOMAIN c \subseteq Keys /\ \A k \in DOMAIN c : c[k] \in Int
  /\ Unlimited \in Int /\ Unlimited > 2000
  /\ Lifetimes \in Seq(Int) /\ \A n \in 1 .. Len(Lifetimes) : Lifetimes[n] < Unlimited
  /\ NoLang \in [full : STRING, base : STRING]
  /\ Setups \subseteq [files : SUBSET STRING, wanted : [full : STRING, base : STRING]]
  /\ MaxDialogs \in Nat /\ MaxFaults \in Nat

VARIABLES
  hasIni,   \* there is an ini file
  ini,      \* what stands in it; -1: nothing
  setup,    \* languages: [files, wanted]
  cfg,      \* m_cfg of each process
  lang,     \* m_lang of each process
  pc,       \* where its thread with the dialog is
  at,       \* which setting comes next
  dlg,      \* the configuration it works with: that of load_from_ini, of the dialog
  shown,    \* history: what its dialog began with
  touched,  \* history: the settings the user changed in it
  loads,    \* how often it has loaded the ini
  whole,    \* history: the configurations m_cfg has been
  calm,     \* history: no other has touched the ini since it began to read or write it
  known,    \* history: what stands in the ini is one configuration
  saved,    \* history: and which
  faults,   \* history: changes by hand and crashes so far
  rdr       \* the readers: [at, copy]

iniVars == <<hasIni, ini, setup>>
userVars == <<shown, touched>>
knownVars == <<calm, known, saved>>
vars == <<iniVars, cfg, lang, pc, at, dlg, userVars, loads, whole, knownVars, faults, rdr>>

-----------------------------------------------------------------------------
Between(v, low, high) == IF v < low THEN low ELSE IF v > high THEN high ELSE v

(* Mutant: the setters do not look.                                        *)
SetNothing(k, v) == v

(* The setters of cfg: a level and a lifetime are brought into their       *)
(* range, and of flags the known ones are kept.                            *)
Set(k, v) ==
  CASE k = "CompressionLevel" -> Between(v, 1, 9)
    [] k = "CacheLifetime" -> Between(v, 1, 2000)
    [] k = "FileTimeFlags" -> v % 4
    [] k = "FileAttrFlags" -> v % 16

Allowed(k) ==
  CASE k = "CompressionLevel" -> 1 .. 9
    [] k = "CacheLifetime" -> 1 .. 2000
    [] k = "FileTimeFlags" -> 0 .. 3
    [] k = "FileAttrFlags" -> 0 .. 15

Defaults ==
  [CompressionLevel |-> 4, CacheLifetime |-> 20, FileTimeFlags |-> 3, FileAttrFlags |-> 15]

(* Mutant: a setting of zero is taken for one that is not there.           *)
LoadPositive(k, raw) == IF raw <= 0 THEN Defaults[k] ELSE Set(k, raw)

(* A setting of the ini, if it is there: what is negative is not.          *)
Load(k, raw) == IF raw < 0 THEN Defaults[k] ELSE Set(k, raw)

IsConfig(c) == DOMAIN c = Keys /\ \A k \in Keys : c[k] \in Allowed(k)

(* What stands in the ini as a configuration.                              *)
Meaning(text) == [k \in Keys |-> Load(k, text[k])]

-----------------------------------------------------------------------------
(* The box of lifetimes: those of the list and, at its place, the one that *)
(* is set, which is selected.                                              *)
Offers == Append(Lifetimes, Unlimited)

Offer(box, val) ==
  LET Put(b, v) == [b EXCEPT !.items = Append(@, v)]
      Select(b, v) == [Put(b, v) EXCEPT !.sel = Len(b.items) + 1, !.left = Unlimited]
      b == IF val > box.left THEN Select(box, box.left) ELSE box
  IN  IF val = Unlimited THEN b ELSE IF val = b.left THEN Select(b, val) ELSE Put(b, val)

LifetimeBox(minutes) ==
  LET boxes[n \in 0 .. Len(Offers)] ==
        IF n = 0 THEN [items |-> <<>>, sel |-> 0, left |-> minutes]
        ELSE Offer(boxes[n - 1], Offers[n])
  IN  boxes[Len(Offers)]

(* Mutant: only the lifetimes of the list can be selected.                 *)
BoxFixed(k, v) == IF k = "CacheLifetime" /\ v \notin ToSet(Lifetimes) THEN -1 ELSE v

(* What a control of the dialog gives back when it was not touched: -1 if  *)
(* nothing is selected.                                                    *)
Box(k, v) ==
  IF k = "CacheLifetime"
  THEN LET box == LifetimeBox(v) IN IF box.sel = 0 THEN -1 ELSE box.items[box.sel]
  ELSE v

-----------------------------------------------------------------------------
(* check_lang_file_by_name: a language with a country, or without; "none"  *)
(* if there is a file for neither.                                         *)
LangFile(l) ==
  IF l.full \in setup.files THEN l.full ELSE IF l.base \in setup.files THEN l.base ELSE "none"

(* update_lang: the language of the ini, then that of the user, and        *)
(* English when neither has a file.                                        *)
UpdateLang(wanted) ==
  LET first == LangFile(wanted)
      second == LangFile(Locale)
  IN  IF first # "none" THEN first ELSE IF second # "none" THEN second ELSE "en"

Lang == UpdateLang(setup.wanted)

-----------------------------------------------------------------------------
Init ==
  /\ hasIni \in BOOLEAN
  /\ ini = [k \in Keys |-> -1]
  /\ setup \in Setups /\ (hasIni <=> setup.wanted # NoLang)
  /\ cfg = [p \in Procs |-> Defaults]
  /\ lang = [p \in Procs |-> "none"]
  /\ pc = [p \in Procs |-> "off"]
  /\ at = [p \in Procs |-> 1]
  /\ dlg = [p \in Procs |-> Defaults]
  /\ shown = [p \in Procs |-> Defaults]
  /\ touched = [p \in Procs |-> {}]
  /\ loads = [p \in Procs |-> 0]
  /\ whole = [p \in Procs |-> {Defaults}]
  /\ calm = [p \in Procs |-> FALSE]
  /\ known = TRUE
  /\ saved = Defaults
  /\ faults = 0
  /\ rdr = [r \in Readers |-> [at |-> 0, copy |-> Defaults]]

(* load_from_ini: without an ini the settings stay as they are.            *)
BeginLoad(p) ==
  /\ pc' = [pc EXCEPT ![p] = IF hasIni THEN "read" ELSE "loaded"]
  /\ at' = [at EXCEPT ![p] = 1]
  /\ dlg' = [dlg EXCEPT ![p] = Defaults]
  /\ calm' = [calm EXCEPT ![p] = known]
  /\ UNCHANGED <<iniVars, cfg, userVars, loads, whole, known, saved, faults, rdr>>

(* DllMain loads the configuration (inicfg::init).                         *)
Start(p) ==
  /\ pc[p] = "off"
  /\ lang' = [lang EXCEPT ![p] = Lang]
  /\ BeginLoad(p)

(* The dialog begins with another load (show_cfg_dialog).                  *)
Configure(p) ==
  /\ pc[p] = "idle" /\ loads[p] <= MaxDialogs
  /\ UNCHANGED lang
  /\ BeginLoad(p)

ReadKey(p) ==
  /\ pc[p] = "read" /\ at[p] <= Len(Order)
  /\ dlg' = [dlg EXCEPT ![p][Order[at[p]]] = Load(Order[at[p]], ini[Order[at[p]]])]
  /\ at' = [at EXCEPT ![p] = @ + 1]
  /\ UNCHANGED <<iniVars, cfg, lang, pc, userVars, loads, whole, knownVars, faults, rdr>>

(* A thread copies the settings, under the read lock.                      *)
Copying(r) == rdr[r].at \in 1 .. Len(AssignOrder)

(* The write lock on m_cfg: the copies of others are complete.             *)
TakeLock(p) ==
  /\ \/ pc[p] = "read" /\ at[p] > Len(Order) /\ pc' = [pc EXCEPT ![p] = "assign"]
     \/ pc[p] = "ok" /\ pc' = [pc EXCEPT ![p] = "commit"]
  /\ \A r \in Readers : ProcOf[r] = p => ~Copying(r)
  /\ at' = [at EXCEPT ![p] = 1]
  /\ UNCHANGED <<iniVars, cfg, lang, dlg, userVars, loads, whole, knownVars, faults, rdr>>

Saving == {p \in Procs : pc[p] = "save"}

(* cfg::assign under the lock, one setting after another.  After a load    *)
(* the lock is given back; after the dialog it is kept for the save.       *)
AssignField(p) ==
  LET k == AssignOrder[at[p]]
      last == at[p] = Len(AssignOrder)
  IN  /\ pc[p] \in {"assign", "commit"}
      /\ cfg' = [cfg EXCEPT ![p][k] = dlg[p][k]]
      /\ at' = [at EXCEPT ![p] = IF last THEN 1 ELSE @ + 1]
      /\ whole' = [whole EXCEPT ![p] = IF last THEN @ \cup {dlg[p]} ELSE @]
      /\ pc' = [pc EXCEPT ![p] = IF ~last THEN @
                                 ELSE IF @ = "assign" THEN "loaded" ELSE "check"]
      /\ UNCHANGED <<iniVars, lang, dlg, userVars, loads, knownVars, faults, rdr>>

(* The end of a load: init returns, show_cfg_dialog shows a copy.          *)
Loaded(p) ==
  /\ pc[p] = "loaded"
  /\ loads' = [loads EXCEPT ![p] = @ + 1]
  /\ IF loads[p] = 0
     THEN /\ pc' = [pc EXCEPT ![p] = "idle"]
          /\ UNCHANGED <<lang, dlg, shown>>
     ELSE /\ pc' = [pc EXCEPT ![p] = "dialog"]
          /\ lang' = [lang EXCEPT ![p] = Lang]
          /\ dlg' = [dlg EXCEPT ![p] = cfg[p]]
          /\ shown' = [shown EXCEPT ![p] = cfg[p]]
  /\ UNCHANGED <<iniVars, cfg, at, touched, whole, knownVars, faults, rdr>>

(* wm_command_ok: every control is read, the untouched ones too.           *)
Ok(p) ==
  /\ pc[p] = "dialog"
  /\ \E c \in Picks :
       /\ touched' = [touched EXCEPT ![p] = DOMAIN c]
       /\ dlg' = [dlg EXCEPT ![p] = [k \in Keys |->
                    Set(k, IF k \in DOMAIN c THEN c[k] ELSE Box(k, dlg[p][k]))]]
  /\ pc' = [pc EXCEPT ![p] = "ok"]
  /\ UNCHANGED <<iniVars, cfg, lang, at, shown, loads, whole, knownVars, faults, rdr>>

Cancel(p) ==
  /\ pc[p] = "dialog"
  /\ pc' = [pc EXCEPT ![p] = "idle"]
  /\ UNCHANGED <<iniVars, cfg, lang, at, dlg, userVars, loads, whole, knownVars, faults, rdr>>

(* save_to_ini looks for the ini: without one nothing is saved.            *)
BeginSave(p) ==
  /\ pc[p] = "check"
  /\ IF hasIni
     THEN /\ pc' = [pc EXCEPT ![p] = "save"]
          /\ calm' = [q \in Procs |-> q = p /\ Saving = {}]
          /\ known' = FALSE
     ELSE /\ pc' = [pc EXCEPT ![p] = "idle"]
          /\ UNCHANGED <<calm, known>>
  /\ UNCHANGED <<iniVars, cfg, lang, at, dlg, userVars, loads, whole, saved, faults, rdr>>

(* Then it writes one setting after another, and creates an ini that is    *)
(* gone by now.                                                            *)
SaveKey(p) ==
  LET k == Order[at[p]]
      last == at[p] = Len(Order)
  IN  /\ pc[p] = "save"
      /\ ini' = [ini EXCEPT ![k] = dlg[p][k]] /\ hasIni' = TRUE
      /\ at' = [at EXCEPT ![p] = IF last THEN 1 ELSE @ + 1]
      /\ pc' = [pc EXCEPT ![p] = IF last THEN "idle" ELSE @]
      /\ known' = (known \/ (last /\ calm[p]))
      /\ saved' = IF last /\ calm[p] THEN dlg[p] ELSE saved
      /\ UNCHANGED <<setup, cfg, lang, dlg, userVars, loads, whole, calm, faults, rdr>>

-----------------------------------------------------------------------------
(* A thread copies the settings under the read lock, as cfg::assign does.  *)
(* No thread runs before DllMain is done.                                  *)
Running(p) == pc[p] # "off" /\ loads[p] > 0

Locked(p) == pc[p] \in {"assign", "commit", "check", "save"}

(* Mutant: the lock of the copy is left out.                               *)
BeginCopyUnlocked(r) ==
  /\ rdr[r].at = 0 /\ Running(ProcOf[r])
  /\ rdr' = [rdr EXCEPT ![r] = [at |-> 1, copy |-> @.copy]]
  /\ UNCHANGED <<iniVars, cfg, lang, pc, at, dlg, userVars, loads, whole, knownVars, faults>>

BeginCopy(r) ==
  /\ rdr[r].at = 0 /\ Running(ProcOf[r]) /\ ~Locked(ProcOf[r])
  /\ rdr' = [rdr EXCEPT ![r] = [at |-> 1, copy |-> @.copy]]
  /\ UNCHANGED <<iniVars, cfg, lang, pc, at, dlg, userVars, loads, whole, knownVars, faults>>

CopyField(r) ==
  LET k == AssignOrder[rdr[r].at]
      more == [rdr[r].copy EXCEPT ![k] = cfg[ProcOf[r]][k]]
  IN  /\ Copying(r)
      /\ rdr' = [rdr EXCEPT ![r] = [at |-> @.at + 1, copy |-> more]]
      /\ UNCHANGED <<iniVars, cfg, lang, pc, at, dlg, userVars, loads, whole, knownVars, faults>>

(* The copy is in the archive or packer; the thread is free for the next.  *)
EndCopy(r) ==
  /\ rdr[r].at > Len(AssignOrder)
  /\ rdr' = [rdr EXCEPT ![r] = [at |-> 0, copy |-> Defaults]]
  /\ UNCHANGED <<iniVars, cfg, lang, pc, at, dlg, userVars, loads, whole, knownVars, faults>>

-----------------------------------------------------------------------------
(* A user changes a setting of the ini by hand, or removes the ini, and    *)
(* its language with it.                                                   *)
ByHand ==
  /\ faults < MaxFaults /\ hasIni
  /\ \/ /\ hasIni' = FALSE /\ ini' = [k \in Keys |-> -1] /\ known' = (Saving = {})
        /\ setup' = [setup EXCEPT !.wanted = NoLang]
     \/ /\ \E k \in Keys : \E v \in Raw[k] : ini' = [ini EXCEPT ![k] = v]
        /\ UNCHANGED <<known, hasIni, setup>>
  /\ saved' = IF known' THEN Meaning(ini') ELSE saved
  /\ calm' = [p \in Procs |-> FALSE]
  /\ faults' = faults + 1
  /\ UNCHANGED <<cfg, lang, pc, at, dlg, userVars, loads, whole, rdr>>

(* A process ends, wherever it stands: in the middle of a save too.        *)
Crash(p) ==
  /\ faults < MaxFaults /\ pc[p] # "off"
  /\ faults' = faults + 1
  /\ pc' = [pc EXCEPT ![p] = "off"]
  /\ at' = [at EXCEPT ![p] = 1]
  /\ loads' = [loads EXCEPT ![p] = 0]
  /\ cfg' = [cfg EXCEPT ![p] = Defaults]
  /\ dlg' = [dlg EXCEPT ![p] = Defaults]
  /\ shown' = [shown EXCEPT ![p] = Defaults]
  /\ touched' = [touched EXCEPT ![p] = {}]
  /\ whole' = [whole EXCEPT ![p] = {Defaults}]
  /\ rdr' = [r \in Readers |->
               IF ProcOf[r] = p THEN [at |-> 0, copy |-> Defaults] ELSE rdr[r]]
  /\ UNCHANGED <<iniVars, lang, knownVars>>

Next ==
  \/ \E p \in Procs :
       \/ Start(p) \/ Configure(p) \/ ReadKey(p) \/ TakeLock(p) \/ AssignField(p)
       \/ Loaded(p) \/ Ok(p) \/ Cancel(p) \/ BeginSave(p) \/ SaveKey(p) \/ Crash(p)
  \/ \E r \in Readers : BeginCopy(r) \/ CopyField(r) \/ EndCopy(r)
  \/ ByHand

Spec == Init /\ [][Next]_vars

-----------------------------------------------------------------------------
(* The settings in memory and those of a dialog are legal, whatever stands *)
(* in the ini: the setters are never passed by.  The language has a file.   *)
TypeOK ==
  /\ \A p \in Procs :
       /\ IsConfig(cfg[p]) /\ IsConfig(dlg[p]) /\ IsConfig(shown[p])
       /\ pc[p] \in {"off", "read", "assign", "loaded", "idle", "dialog", "ok", "commit",
                     "check", "save"}
       /\ at[p] \in 1 .. Len(Order) + 1 /\ loads[p] \in 0 .. MaxDialogs + 1
       /\ touched[p] \subseteq Keys /\ calm[p] \in BOOLEAN
  /\ \A r \in Readers : IsConfig(rdr[r].copy) /\ rdr[r].at \in 0 .. Len(AssignOrder) + 1
  /\ \A p \in Procs : lang[p] \in setup.files \cup {"en", "none"}
  /\ DOMAIN ini = Keys /\ hasIni \in BOOLEAN /\ known \in BOOLEAN /\ IsConfig(saved)

(* A copy is a configuration that m_cfg has been as a whole, never a mix   *)
(* of two: inicfg::copy and get_cfg, against load_from_ini and the dialog. *)
NoTornCopy ==
  \A r \in Readers : rdr[r].at > Len(AssignOrder) => rdr[r].copy \in whole[ProcOf[r]]

(* A load with which nobody interfered finds what the last save that was   *)
(* alone has written, in whichever process: load_from_ini undoes           *)
(* save_to_ini, and a save that was cut off or met another does not count. *)
LoadsWhole == \A p \in Procs : pc[p] = "assign" /\ calm[p] => dlg[p] = saved

(* A setting the user has not touched stays: wm_command_ok reads every     *)
(* control, and wm_init made each show what was set.                       *)
DialogKeepsUntouched ==
  \A p \in Procs : pc[p] \in {"ok", "commit", "check", "save"} =>
    \A k \in Keys \ touched[p] : dlg[p][k] = shown[p][k]

=============================================================================
