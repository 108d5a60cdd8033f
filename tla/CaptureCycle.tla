----------------------------- MODULE CaptureCycle -----------------------------
(***************************************************************************)
(* scripts/capture-kvm-cycle.sh: what the script does to the AppArmor      *)
(* profile of tshark and to its temporary files.  A command may fail, which *)
(* ends the script (`set -e'); a trap runs cleanup on exit and on HUP, INT *)
(* and TERM.  After a signal the shell carries on where it was.  The       *)
(* commands are external; aa-enforce works, and only one other command     *)
(* fails by itself (those that follow a removed file fail as well).        *)
(***************************************************************************)
VARIABLES
  profile,           \* external: the mode of tshark's profile, or "absent"
  restore_apparmor,
  capture_tmp, filtered_tmp,   \* the variables hold a name
  files,             \* external: the temporary files that exist
  before,            \* the profile before the script
  failed,            \* the one failure has happened
  after_cleanup,     \* where the shell goes when cleanup returns
  pc

vars == <<profile, restore_apparmor, capture_tmp, filtered_tmp, files, before,
          failed, after_cleanup, pc>>

Script ==
  {"check", "modprobe", "mktemp", "status", "complain", "flag", "capture",
   "addresses", "mktemp2", "filter", "chown", "mv", "rm", "chown_all", "mv_all",
   "summary"}

Cleanup == {"rm_capture", "rm_filtered", "enforce"}

TypeOK ==
  /\ profile \in {"absent", "complain", "enforce"} /\ before \in {"absent", "complain", "enforce"}
  /\ restore_apparmor \in BOOLEAN
  /\ capture_tmp \in BOOLEAN /\ filtered_tmp \in BOOLEAN
  /\ files \subseteq {"capture", "filtered"}
  /\ failed \in BOOLEAN
  /\ after_cleanup \in Script \union {"end"}
  /\ pc \in Script \union Cleanup \union {"end"}

Init ==
  /\ profile \in {"absent", "complain", "enforce"} /\ before = profile
  /\ restore_apparmor = FALSE
  /\ capture_tmp = FALSE /\ filtered_tmp = FALSE
  /\ files = {}
  /\ failed = FALSE
  /\ after_cleanup = "end"
  /\ pc = "check"

shell == <<restore_apparmor, capture_tmp, filtered_tmp>>
system == <<profile, files, before, failed>>

\* exit: the EXIT trap runs cleanup.
Exit == pc' = "rm_capture" /\ after_cleanup' = "end"

\* The command at `from' succeeds and the script goes to `to'.
Step(from, to) == pc = from /\ pc' = to /\ UNCHANGED after_cleanup

\* The file that the command at pc works on is gone: a signal's cleanup
\* removed it.
Missing ==
  \/ pc \in {"filter", "chown_all", "mv_all"} /\ "capture" \notin files
  \/ pc \in {"chown", "mv"} /\ "filtered" \notin files

\* The command at pc fails and leaves nothing behind.  In the cleanup of a
\* signal that ends the script, in that of the exit it ends cleanup itself.
Fail ==
  /\ pc \notin {"status", "flag", "enforce", "end"}
  /\ pc = "rm_capture" => capture_tmp
  /\ pc = "rm_filtered" => filtered_tmp
  /\ Missing \/ ~ failed
  /\ failed' = (failed \/ ~ Missing)
  /\ IF pc \in Cleanup /\ after_cleanup = "end"
     THEN pc' = "end" /\ UNCHANGED after_cleanup ELSE Exit
  /\ UNCHANGED <<shell, profile, files, before>>

\* The arguments are checked, then usbmon is loaded.
Check == Step("check", "modprobe") /\ UNCHANGED <<shell, system>>

Modprobe == Step("modprobe", "mktemp") /\ UNCHANGED <<shell, system>>

Mktemp ==
  /\ Step("mktemp", "status")
  /\ capture_tmp' = TRUE /\ files' = files \union {"capture"}
  /\ UNCHANGED <<restore_apparmor, filtered_tmp, profile, before, failed>>

\* aa-status: the profile is relaxed only if it is enforced.
AaStatus ==
  /\ pc = "status"
  /\ pc' = IF profile = "enforce" THEN "complain" ELSE "capture"
  /\ UNCHANGED <<shell, system, after_cleanup>>

\* External: aa-complain, which may also fail once the profile is rewritten
\* (it then reloads it), or be interrupted there.
AaComplain ==
  /\ pc = "complain"
  /\ profile' = "complain"
  /\ \/ pc' = "flag" /\ UNCHANGED <<after_cleanup, failed>>
     \/ ~ failed /\ failed' = TRUE /\ Exit
  /\ UNCHANGED <<shell, files, before>>

Flag ==
  /\ Step("flag", "capture")
  /\ restore_apparmor' = TRUE
  /\ UNCHANGED <<capture_tmp, filtered_tmp, system>>

Capture == Step("capture", "addresses") /\ UNCHANGED <<shell, system>>

\* The target's addresses were found, or not.
Addresses ==
  /\ Step("addresses", "mktemp2") \/ Step("addresses", "chown_all")
  /\ UNCHANGED <<shell, system>>

Mktemp2 ==
  /\ Step("mktemp2", "filter")
  /\ filtered_tmp' = TRUE /\ files' = files \union {"filtered"}
  /\ UNCHANGED <<restore_apparmor, capture_tmp, profile, before, failed>>

Filter ==
  /\ Step("filter", "chown")
  /\ ~ Missing
  /\ UNCHANGED <<shell, system>>

\* chown and mv of the filtered capture, rm of the complete one.
Chown == Step("chown", "mv") /\ ~ Missing /\ UNCHANGED <<shell, system>>

Mv ==
  /\ Step("mv", "rm")
  /\ ~ Missing
  /\ filtered_tmp' = FALSE /\ files' = files \ {"filtered"}
  /\ UNCHANGED <<restore_apparmor, capture_tmp, profile, before, failed>>

Rm ==
  /\ Step("rm", "summary")
  /\ capture_tmp' = FALSE /\ files' = files \ {"capture"}
  /\ UNCHANGED <<restore_apparmor, filtered_tmp, profile, before, failed>>

ChownAll ==
  Step("chown_all", "mv_all") /\ ~ Missing /\ UNCHANGED <<shell, system>>

MvAll ==
  /\ Step("mv_all", "summary")
  /\ ~ Missing
  /\ capture_tmp' = FALSE /\ files' = files \ {"capture"}
  /\ UNCHANGED <<restore_apparmor, filtered_tmp, profile, before, failed>>

\* The last command, and the end of the script.
Summary == pc = "summary" /\ Exit /\ UNCHANGED <<shell, system>>

\* A signal: cleanup runs once the current command is over.
Signal ==
  /\ pc \in Script
  /\ pc' = "rm_capture" /\ after_cleanup' = pc
  /\ UNCHANGED <<shell, system>>

RmCapture ==
  /\ Step("rm_capture", "rm_filtered")
  /\ files' = IF capture_tmp THEN files \ {"capture"} ELSE files
  /\ UNCHANGED <<shell, profile, before, failed>>

RmFiltered ==
  /\ Step("rm_filtered", "enforce")
  /\ files' = IF filtered_tmp THEN files \ {"filtered"} ELSE files
  /\ UNCHANGED <<shell, profile, before, failed>>

\* aa-enforce, the end of cleanup.
AaEnforce ==
  /\ Step("enforce", after_cleanup)
  /\ profile' = IF restore_apparmor THEN "enforce" ELSE profile
  /\ UNCHANGED <<shell, files, before, failed>>

Next ==
  \/ Check \/ Modprobe \/ Mktemp \/ AaStatus \/ AaComplain \/ Flag \/ Capture
  \/ Addresses \/ Mktemp2 \/ Filter \/ Chown \/ Mv \/ Rm \/ ChownAll \/ MvAll
  \/ Summary \/ Signal \/ Fail \/ RmCapture \/ RmFiltered \/ AaEnforce

Spec == Init /\ [][Next]_vars

-----------------------------------------------------------------------------
(* Properties *)

\* The README: "A trap restores enforcing mode on success, error, or signal."
EnforcingRestored == pc = "end" => profile = before
=============================================================================
