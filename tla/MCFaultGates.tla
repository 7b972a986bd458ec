---------------------------- MODULE MCFaultGates ----------------------------
(* FaultGates on a database of a few pages behind two gates.               *)
EXTENDS FaultGates, TLC

\* Pages 0 and 2 hold the same thing behind the same gate, pages 1 and 4 behind two.
AlikeBothWays == (0 :> "a") @@ (1 :> "b") @@ (2 :> "a") @@ (4 :> "b")

\* Pages 0 and 1 hold the same thing and take different gates.
AlikeApart == (0 :> "a") @@ (1 :> "a") @@ (2 :> "b")

\* An empty warm set, and one of all the pages: more than the workers.
NoneOrAll == {<<>>, <<0, 1, 2, 4>>}

=============================================================================
