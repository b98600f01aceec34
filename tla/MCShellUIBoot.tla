--------------------------- MODULE MCShellUIBoot ---------------------------
(* ShellUIBoot with the functions plugin_mono redirects. *)
EXTENDS ShellUIBoot

MCFunctions == Redirected

\* Found by bytes the patch overwrites; the calls' patterns match a patched call.
MCScanned == {"LoadModule", "SystemName", "Icons", "RemotePlay", "FinishBoot"}

\* Those of app.exe that need padding, of which there is not enough for all.
Padded == {"NewElement", "OnCheckVisible", "StartSettingsPage", "SetImage", "GetString"}

\* A firmware with everything, one that lacks any one function or any two of
\* those that compete for padding, and ones without a whole plan's functions.
MCFirmwares ==
    {{}} \cup {{g} : g \in Redirected} \cup {{g, h} : g, h \in Padded}
      \cup {{plan[i].f : i \in DOMAIN plan} : plan \in {BranchPlan, PrintTimeTick}}

\* Where only the restart matters.
Complete == {{}}
=============================================================================
