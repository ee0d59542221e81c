---------------------------- MODULE AuthEngineMC ----------------------------
(* Instances of AuthEngine for TLC.                                         *)
EXTENDS AuthEngine

\* Every policy, every set of mandatory cameras and every set of cameras with a
\* brightness floor.
AllConfigs == Configurations

\* One lenient configuration: the policy is not what this instance is about.
OneConfig == {[policy |-> "LENIENT_ANY", mandatory |-> {}, floor |-> {}]}
-----------------------------------------------------------------------------
(* What the documentation and the tests say and the code does not do.       *)

\* docs/CONFIGURATION.md: under the strict policy all cameras must capture, pass
\* the brightness check and match; a dark camera fails the authentication.
StrictNeedsEveryCamera ==
    verdict = "granted" /\ config.policy = "STRICT_ALL" => \A c \in Cams : seen[c] = "match"

\* docs/CONFIGURATION.md: a match of every mandatory camera is required under
\* the adaptive policy.
MandatoryCamerasMatch ==
    verdict = "granted" /\ config.policy = "ADAPTIVE" =>
      \A c \in config.mandatory : seen[c] = "match"
=============================================================================
