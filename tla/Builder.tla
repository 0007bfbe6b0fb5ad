------------------------------- MODULE Builder -------------------------------
(***************************************************************************)
(* BuilderEngine (builder/engine.py).  build_module() writes the files of  *)
(* a package one after the other and goes on when one fails;               *)
(* build_script() and build_config() write one file.  The process may end  *)
(* in between.  list_modules() takes a directory for a module when it has  *)
(* an __init__.py, whatever else it has.                                   *)
(***************************************************************************)
EXTENDS Naturals, Sequences

CONSTANTS Modules, Scripts, Configs, \* what is built
          MaxBuilds, MaxFaults

ASSUME BuilderAssumption == MaxBuilds \in Nat /\ MaxFaults \in Nat

VARIABLES
  disk,    \* the files of each target: "none", "whole" or "cut"
  target,  \* what is being built, as a set of at most one
  next,    \* the next file to write
  errors,  \* of the build under way
  spoilt,  \* the targets that are built a second time, or had a failed write
  success, \* the targets whose last build has reported success
  builds, faults

builderVars == <<disk, target, next, errors, spoilt, success, builds, faults>>

Targets == Modules \cup Scripts \cup Configs

InitFileFirst(t) ==
  IF t \in Modules THEN <<"__init__.py", "node.py", "registry.py">> ELSE <<"file">>

\* The order in which the files are written.
FileOrder(t) ==
  IF t \in Modules THEN <<"node.py", "registry.py", "__init__.py">> ELSE <<"file">>

Files(t) == {FileOrder(t)[n] : n \in DOMAIN FileOrder(t)}

BuilderInit ==
  /\ disk = [t \in Targets |-> [f \in Files(t) |-> "none"]]
  /\ target = {} /\ next = 1 /\ errors = {} /\ spoilt = {} /\ success = {}
  /\ builds = 0 /\ faults = 0

----------------------------------------------------------------------------
Untouched(t) == \A f \in Files(t) : disk[t][f] = "none"

Build(t) ==
  /\ target = {} /\ builds < MaxBuilds /\ builds' = builds + 1
  /\ target' = {t} /\ next' = 1 /\ errors' = {}
  /\ success' = success \ {t}
  /\ spoilt' = IF Untouched(t) THEN spoilt ELSE spoilt \cup {t}
  /\ UNCHANGED <<disk, faults>>

BuildModule(t) == t \in Modules /\ Build(t)
BuildScript(t) == t \in Scripts /\ Build(t)
BuildConfig(t) == t \in Configs /\ Build(t)

\* expand() is build_module(): the record it then makes for the registry of
\* names has port 0, which is refused, and the exception is swallowed.
Expand(t) == BuildModule(t)

\* The directory cannot be made: nothing is written.
BuildFails(t) ==
  /\ target = {} /\ builds < MaxBuilds /\ builds' = builds + 1
  /\ success' = success \ {t}
  /\ UNCHANGED <<disk, target, next, errors, spoilt, faults>>

Writes(t) == target = {t} /\ next <= Len(FileOrder(t))

Leaves(t, what) ==
  /\ disk' = [disk EXCEPT ![t][FileOrder(t)[next]] = what]
  /\ next' = next + 1

WriteFile(t) ==
  /\ Writes(t) /\ Leaves(t, "whole")
  /\ UNCHANGED <<target, errors, spoilt, success, builds, faults>>

\* An OSError is noted, and the next file is written.
Fails(t, outcomes) ==
  /\ Writes(t) /\ faults < MaxFaults /\ faults' = faults + 1
  /\ \E what \in outcomes : Leaves(t, what)
  /\ errors' = errors \cup {t} /\ spoilt' = spoilt \cup {t}
  /\ UNCHANGED <<target, success, builds>>

\* The file cannot be opened, and stays as it was, or it is cut.
ModuleFileFails(t) ==
  t \in Modules /\ Fails(t, {disk[t][FileOrder(t)[next]], "cut"})

\* Or it is written and cannot be made executable.
ScriptFails(t) == t \in Scripts /\ Fails(t, {disk[t]["file"], "cut", "whole"})

ConfigFails(t) == t \in Configs /\ Fails(t, {disk[t]["file"], "cut"})

\* The data is no JSON: an exception, in the middle of the file.
ConfigRaises(t) ==
  /\ t \in Configs /\ Writes(t) /\ Leaves(t, "cut")
  /\ target' = {} /\ spoilt' = spoilt \cup {t}
  /\ UNCHANGED <<errors, success, builds, faults>>

BuildReturns(t) ==
  /\ target = {t} /\ next > Len(FileOrder(t))
  /\ success' = IF errors = {} THEN success \cup {t} ELSE success
  /\ target' = {}
  /\ UNCHANGED <<disk, next, errors, spoilt, builds, faults>>

\* The process ends, in the middle of a file perhaps.
BuilderEnds ==
  /\ faults < MaxFaults /\ faults' = faults + 1
  /\ target' = {}
  /\ \/ UNCHANGED <<disk, next>>
     \/ \E t \in Targets : Writes(t) /\ Leaves(t, "cut")
  /\ UNCHANGED <<errors, spoilt, success, builds>>

BuilderNext ==
  \/ \E t \in Targets :
       \/ BuildModule(t) \/ Expand(t) \/ BuildScript(t) \/ BuildConfig(t)
       \/ BuildFails(t) \/ WriteFile(t) \/ ModuleFileFails(t)
       \/ ScriptFails(t) \/ ConfigFails(t) \/ ConfigRaises(t)
       \/ BuildReturns(t)
  \/ BuilderEnds

BuilderSpec == BuilderInit /\ [][BuilderNext]_builderVars

----------------------------------------------------------------------------
\* list_modules().
Listed(t) == t \in Modules /\ disk[t]["__init__.py"] # "none"

\* What a build reported as a success is whole until it is built again; and a
\* module built for the first time, wherever the process ended, is not listed
\* before its other files are whole, unless one of them could not be written
\* (build_module, list_modules).
BuiltWhole ==
  \A t \in Targets :
    /\ t \in success => \A f \in Files(t) : disk[t][f] = "whole"
    /\ Listed(t) /\ t \notin spoilt =>
         \A f \in Files(t) \ {"__init__.py"} : disk[t][f] = "whole"
=============================================================================
