------------------------------ MODULE MCShell ------------------------------
(* Shell with five characters: s spells sleep when it is a word of its     *)
(* own, and stands for the part of another word when it is not.            *)
EXTENDS Shell, TLC

MCNameOf ==
  (<<"s">> :> "sleep") @@ (<<"s", "s">> :> "cp") @@ (<<"s", "2">> :> "exit")
    @@ (<<"2", "s">> :> "reboot")
MCDigitOf == "2" :> 2
MCInputs ==
  UNION { [1 .. n -> {"s", "2", " "}] : n \in 1 .. 4 }
    \cup [1 .. 5 -> {"s", " "}]
    \cup { <<"s", " ", "-", "2">>, <<"s", " ", "2", "2">>, <<"s", " ", "+", "2">> }
=============================================================================
