-------------------------------- MODULE Options --------------------------------
(***************************************************************************)
(* internal/app: what the flags, the environment and the file say of the   *)
(* shell and of the actions, and what the program makes of it.             *)
(*                                                                         *)
(* Each of the two has a switch that turns it on and one that turns it     *)
(* off.  A switch that is given reads "yes" or "no", as in --act=false; a  *)
(* value in the environment that is no boolean counts as none.             *)
(***************************************************************************)
EXTENDS Naturals

Switch == {"none", "yes", "no"}

\* --X, --no-X, AGENT_OBSERVER_X, AGENT_OBSERVER_NO_X, and X in the file.
Sources == [flag : Switch, noFlag : Switch, env : Switch, noEnv : Switch, file : BOOLEAN]

\* envBool.
EnvBool(s, fallback) == IF s = "none" THEN fallback ELSE s = "yes"

\* A flag's default is what the environment made of it.
On(o) == EnvBool(o.flag, EnvBool(o.env, o.file))
Off(o) == EnvBool(o.noFlag, EnvBool(o.noEnv, FALSE))

\* normalizeShellOptions: --shell beats the environment, and so does --no-shell.
ShellOff(o) == Off(o) /\ ~(o.flag = "yes")
ShellOn(o) == On(o) /\ ~(o.noFlag = "yes" /\ ShellOff(o))

\* validateOptions, on the shell.
ValidShell(o) ==
  /\ o.flag = "none" \/ o.noFlag = "none"
  /\ ~(ShellOn(o) /\ ShellOff(o))

ShellEnabled(o) == ShellOn(o) /\ ~ShellOff(o)

\* Mutant: --no-act is not asked.
ActWhenAsked(o) == On(o)

ActEnabled(o) == On(o) /\ ~Off(o)

-----------------------------------------------------------------------------
\* What a reader of the options expects, one level after the other: somebody asks for
\* it, and nobody who ranks as high forbids it.
FlagForbids(o) == o.flag = "no" \/ o.noFlag = "yes"
EnvForbids(o) == o.env = "no" \/ (o.noEnv = "yes" /\ o.noFlag # "no")

Consented(o) ==
  /\ ~FlagForbids(o)
  /\ o.flag = "yes" \/ (~EnvForbids(o) /\ (o.env = "yes" \/ o.file))
=============================================================================
