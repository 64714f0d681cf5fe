------------------------------ MODULE MCHarden ------------------------------
(* Two vty lines allowed.  `wide' has four, `narrow' has the two and room    *)
(* for more; `old' has four and an image without AES-GCM or `log config';    *)
(* `bare' lacks the archive command and does not render its SSH version;     *)
(* `shell' is no switch; `login' prompts in user EXEC.  The hostname of      *)
(* `wide' has a number no line has, that of `narrow' one its image allows.   *)
EXTENDS Harden

MCDevice == {"wide", "narrow", "old", "bare", "login", "shell"}
MCPromptOf == [d \in MCDevice |-> IF d = "login" THEN "user" ELSE "prompt"]
MCHighestVty == [d \in MCDevice |-> IF d = "narrow" THEN 1 ELSE 3]
MCMostVty == [d \in MCDevice |-> IF d = "old" THEN 3 ELSE 4]
MCHostNumber == [d \in MCDevice |-> CASE d = "wide" -> 9 [] d = "narrow" -> 3 [] OTHER -> -1]
MCRejects == [d \in MCDevice |->
                CASE d = "old" -> {Enc, Cmd("log-config")}
                  [] d = "bare" -> {Cmd("archive")}
                  [] OTHER -> {}]
MCRenders == {"wide", "old"}
MCSwitches == MCDevice \ {"shell"}
MCBanners == {<<>>, <<"mark", "mark", "text", "mark">>, <<"rule", "text", "rule">>}
=============================================================================
