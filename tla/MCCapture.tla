----------------------------- MODULE MCCapture -----------------------------
(* Four Cisco switches and two devices that are not: `banner' has its own   *)
(* prompt inside its running-config, `mute' answers a command with nothing, *)
(* `pager' ignores `terminal length 0', `login' prompts in user EXEC.       *)
EXTENDS Capture, TLC

MCConfig == "show running-config"
MCVersion == "show version"
MCUsers == "show snmp user"
MCTemplate == [TA |-> "show template interface source user TA"]
MCAsked == <<MCConfig, MCVersion, MCUsers>>

Answer(tl, config, version, users, template) ==
  (PagingOff :> tl) @@ (MCConfig :> config) @@ (MCVersion :> version)
    @@ (MCUsers :> users) @@ (MCTemplate.TA :> template)

MCReply == [
  switch |-> Answer(<<>>, <<"head", "TA", "TA", "end">>, <<"line">>, <<>>, <<"line">>),
  banner |-> Answer(<<>>, <<"head", "look", "end">>, <<"line">>, <<"line">>, <<>>),
  mute   |-> Answer(<<>>, <<"head", "hash", "rule", "end">>, <<>>, <<>>, <<>>),
  pager  |-> Answer(<<>>, <<"head", "end">>, <<"line", "more">>, <<>>, <<>>),
  login  |-> Answer(<<>>, <<>>, <<>>, <<>>, <<>>),
  shell  |-> Answer(<<"complaint">>, <<"complaint">>, <<"complaint">>, <<"complaint">>,
                    <<"complaint">>)]
MCDevice == DOMAIN MCReply
MCIos == MCDevice \ {"shell"}
MCPromptOf == [d \in MCDevice |-> IF d = "login" THEN "user" ELSE "prompt"]
MCMayBeEmpty == {MCUsers}
MCBanners == {<<>>, <<"text", "mark">>, <<"rule", "text", "rule">>}
=============================================================================
