----------------------------- MODULE SsdProfile -----------------------------
(***************************************************************************)
(* src/scripts/apply_ssd_profile.py: load_profile turns a latency profile  *)
(* into per-key nanosecond values; apply_config rewrites every "key = ..."  *)
(* line of the config, writes config + ".bak" if it does not exist yet,    *)
(* then rewrites the config in place.  Both writes open the file with "w"  *)
(* (truncate) and write line after line, so a crash (kill, power loss)     *)
(* may leave either file holding any prefix of what was being written.    *)
(* The script is run again and again; a run may crash at any point.        *)
(*                                                                         *)
(* A config line is a record: a key line in the "spaced" form the code     *)
(* matches ("key = v"), in any other spacing ("tight", e.g. "key=v"), or a *)
(* line that sets no key.  orig is the config before the first run.        *)
(***************************************************************************)
EXTENDS Integers, Sequences, SequencesExt

CONSTANTS
    Keys,        \* the keys of the updates dict that the config may contain
    KeyGroup,    \* the profile value each key takes: "read", "program", "erase"
    Vals,        \* the values a config line may hold before any run
    Profiles,    \* the profiles the script may be given
    MaxLines,    \* bound: lines of the original config
    MaxRuns,     \* bound: runs of the script
    MaxCrashes   \* bound: runs that crash

OtherLine == [key |-> "other", form |-> "other", val |-> 0]

Line == [key : Keys, form : {"spaced", "tight"}, val : Int] \cup {OtherLine}

\* UNIT_TO_NS, with unit.lower() applied to the unit names a profile may use.
UnitToNs == [ns |-> 1, us |-> 1000, ms |-> 1000000]
Lower    == [ns |-> "ns", us |-> "us", ms |-> "ms", US |-> "us", s |-> "s"]

\* int(round(x)) on x = n / d: Python rounds halves to the even integer.
RoundHalfEven(n, d) ==
    LET q == n \div d
        r == n % d
    IN CASE 2 * r < d -> q
         [] 2 * r > d -> q + 1
         [] OTHER     -> IF q % 2 = 0 THEN q ELSE q + 1

(***************************************************************************)
(* to_ns(value, unit) for a value given in tenths of the unit.  A missing  *)
(* unit ("none") is "ns" (units.get(..., "ns")).                           *)
(***************************************************************************)
UnitOf(e)  == Lower[IF e.unit = "none" THEN "ns" ELSE e.unit]
UnitOK(e)  == UnitOf(e) \in DOMAIN UnitToNs
\* Fault variant: int(value * factor), the round() left out.
ToNsTruncated(e) == (e.tenths * UnitToNs[UnitOf(e)]) \div 10

ToNs(e)    == RoundHalfEven(e.tenths * UnitToNs[UnitOf(e)], 10)

\* load_profile raises ValueError unless every unit is supported.
ProfileOK(p) == \A g \in {"read", "program", "erase"} : UnitOK(p[g])

\* The updates dict: LSB/CSB/MSBRead from tR, ...Write from tPROG, Erase from tBERS.
LoadProfile(p) == [key \in Keys |-> ToNs(p[KeyGroup[key]])]

\* stripped.startswith(f"{key} =")
Matches(line, key) == line.key = key /\ line.form = "spaced"

Replaced(line, updates) == \E key \in DOMAIN updates : Matches(line, key)

\* One iteration of the loop over lines: the first matching key rewrites it.
PatchLine(line, updates) ==
    IF Replaced(line, updates)
    THEN [line EXCEPT !.val = updates[line.key]]
    ELSE line

\* Fault variant: the "if not replaced" check is lost, the old line is kept too.
PatchKeepingOld(ls, updates) ==
    FlattenSeq([n \in DOMAIN ls |->
                   IF Replaced(ls[n], updates)
                   THEN <<PatchLine(ls[n], updates), ls[n]>> ELSE <<ls[n]>>])

\* out_lines: the loop of lines 54-64 over every line of the config.
Patch(ls, updates) == [n \in DOMAIN ls |-> PatchLine(ls[n], updates)]

-----------------------------------------------------------------------------
VARIABLES
    orig,       \* the config before the first run (never written)
    cfg,        \* the content of the config file
    bakExists,  \* os.path.exists(config_path + ".bak")
    bak,        \* the content of the backup file
    pc,         \* where the current run is: "idle" between runs
    lines,      \* lines = f.readlines() of the current run
    outLines,   \* out_lines of the current run
    pos,        \* the next line writelines writes
    runs,       \* runs started so far
    crashes     \* runs that crashed so far

vars == <<orig, cfg, bakExists, bak, pc, lines, outLines, pos, runs, crashes>>

Configs == UNION {[1..n -> [key : Keys, form : {"spaced", "tight"}, val : Vals] \cup {OtherLine}]
                    : n \in 0..MaxLines}

Init ==
    /\ orig \in Configs /\ cfg = orig
    /\ bakExists = FALSE /\ bak = <<>>
    /\ pc = "idle" /\ lines = <<>> /\ outLines = <<>> /\ pos = 1
    /\ runs = 0 /\ crashes = 0

\* load_profile raises: the run ends before apply_config touches any file.
ProfileRejected ==
    /\ pc = "idle" /\ runs < MaxRuns
    /\ \E p \in Profiles : ~ProfileOK(p)
    /\ runs' = runs + 1
    /\ UNCHANGED <<orig, cfg, bakExists, bak, pc, lines, outLines, pos, crashes>>

\* updates = load_profile(...); lines = f.readlines(); out_lines = ...
StartRun ==
    /\ pc = "idle" /\ runs < MaxRuns
    /\ \E p \in Profiles :
          /\ ProfileOK(p)
          /\ lines' = cfg /\ outLines' = Patch(cfg, LoadProfile(p))
    /\ pc' = "backup" /\ runs' = runs + 1
    /\ UNCHANGED <<orig, cfg, bakExists, bak, pos, crashes>>

\* Fault variant: the backup is written on every run.
OpenBackupAlways ==
    /\ pc = "backup"
    /\ bakExists' = TRUE /\ bak' = <<>> /\ pc' = "bak_write" /\ pos' = 1
    /\ UNCHANGED <<orig, cfg, lines, outLines, runs, crashes>>

\* if not os.path.exists(backup_path): open(backup_path, "w")
OpenBackup ==
    /\ pc = "backup" /\ ~bakExists
    /\ bakExists' = TRUE /\ bak' = <<>> /\ pc' = "bak_write" /\ pos' = 1
    /\ UNCHANGED <<orig, cfg, lines, outLines, runs, crashes>>

SkipBackup ==
    /\ pc = "backup" /\ bakExists
    /\ pc' = "cfg_open"
    /\ UNCHANGED <<orig, cfg, bakExists, bak, lines, outLines, pos, runs, crashes>>

\* f.writelines(lines), one line at a time
WriteBakLine ==
    /\ pc = "bak_write" /\ pos <= Len(lines)
    /\ bak' = Append(bak, lines[pos]) /\ pos' = pos + 1
    /\ UNCHANGED <<orig, cfg, bakExists, pc, lines, outLines, runs, crashes>>

CloseBackup ==
    /\ pc = "bak_write" /\ pos > Len(lines)
    /\ pc' = "cfg_open"
    /\ UNCHANGED <<orig, cfg, bakExists, bak, lines, outLines, pos, runs, crashes>>

\* open(config_path, "w") truncates the config
OpenConfig ==
    /\ pc = "cfg_open"
    /\ cfg' = <<>> /\ pc' = "cfg_write" /\ pos' = 1
    /\ UNCHANGED <<orig, bakExists, bak, lines, outLines, runs, crashes>>

\* f.writelines(out_lines), one line at a time
WriteConfigLine ==
    /\ pc = "cfg_write" /\ pos <= Len(outLines)
    /\ cfg' = Append(cfg, outLines[pos]) /\ pos' = pos + 1
    /\ UNCHANGED <<orig, bakExists, bak, pc, lines, outLines, runs, crashes>>

FinishRun ==
    /\ pc = "cfg_write" /\ pos > Len(outLines)
    /\ pc' = "idle" /\ lines' = <<>> /\ outLines' = <<>> /\ pos' = 1
    /\ UNCHANGED <<orig, cfg, bakExists, bak, runs, crashes>>

\* The process dies; the files keep whatever was written.
Crash ==
    /\ pc # "idle" /\ crashes < MaxCrashes
    /\ pc' = "idle" /\ lines' = <<>> /\ outLines' = <<>> /\ pos' = 1
    /\ crashes' = crashes + 1
    /\ UNCHANGED <<orig, cfg, bakExists, bak, runs>>

Next ==
    \/ ProfileRejected \/ StartRun
    \/ OpenBackup \/ SkipBackup \/ WriteBakLine \/ CloseBackup
    \/ OpenConfig \/ WriteConfigLine \/ FinishRun
    \/ Crash

Spec == Init /\ [][Next]_vars

-----------------------------------------------------------------------------
TypeOK ==
    /\ orig \in Configs /\ cfg \in Seq(Line) /\ bak \in Seq(Line)
    /\ bakExists \in BOOLEAN
    /\ pc \in {"idle", "backup", "bak_write", "cfg_open", "cfg_write"}
    /\ lines \in Seq(Line) /\ outLines \in Seq(Line)
    /\ runs \in 0..MaxRuns /\ crashes \in 0..MaxCrashes

\* Every updates dict a run may apply.
Updates == {LoadProfile(p) : p \in {q \in Profiles : ProfileOK(q)}}

(***************************************************************************)
(* The backup only ever holds the original config, or a prefix of it when  *)
(* the run writing it died: whatever runs and crashes came before, the     *)
(* .bak never holds a config an earlier run had already patched (the       *)
(* os.path.exists check of line 67 is what guarantees it).                 *)
(***************************************************************************)
BackupHoldsOriginal == bakExists => IsPrefix(bak, orig)

(***************************************************************************)
(* Through any sequence of runs with different profiles and crashes, the   *)
(* config never gains, duplicates or reorders a line: line n is still the  *)
(* original line n, or that line with its value replaced by a profile's.   *)
(* A crash may cut the config short, never make it longer.                 *)
(***************************************************************************)
ConfigLinesFromOriginal ==
    /\ Len(cfg) <= Len(orig)
    /\ \A n \in DOMAIN cfg :
          cfg[n] \in {orig[n]} \cup {PatchLine(orig[n], u) : u \in Updates}

(***************************************************************************)
(* Every key line the runs rewrote holds the latency of that key's own     *)
(* operation (tR for the reads, tPROG for the writes, tBERS for Erase) in  *)
(* one of the profiles the script accepts, to the nearest nanosecond: at   *)
(* most half a nanosecond from the profile's value converted from its      *)
(* unit.  Values are in tenths, hence the bound of 5.                       *)
(***************************************************************************)
PatchedValuesNearest ==
    \A n \in DOMAIN cfg :
      cfg[n] # orig[n] =>
        \E p \in {q \in Profiles : ProfileOK(q)} :
          LET e   == p[KeyGroup[cfg[n].key]]
              err == 10 * cfg[n].val - e.tenths * UnitToNs[UnitOf(e)]
          IN -5 <= err /\ err <= 5

(***************************************************************************)
(* The original config is never lost: at every point either the backup or *)
(* the config itself still holds it, so the user can always restore it.    *)
(***************************************************************************)
OriginalRecoverable == (bakExists /\ bak = orig) \/ cfg = orig

=============================================================================
