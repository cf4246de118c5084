--------------------------- MODULE MCBuildInstall ---------------------------
(***************************************************************************)
(* A small instance of BuildInstall for TLC.                               *)
(***************************************************************************)
EXTENDS BuildInstall

(* Two scripts that share ZeroProcHot.c.o, one that installs the same file *)
(* as the first from an object of its own, and the files whose scripts do  *)
(* not disagree how to make them.                                          *)
ZeroProcHotJobs == {BuildTmp, BuildZig, BuildC("ZeroProcHot")}
ZeroProcHotFiles ==
  {<<"boot", "ZeroProcHot", "_x64.efi">>, <<"boot", "bootx64", ".efi">>}
=============================================================================
