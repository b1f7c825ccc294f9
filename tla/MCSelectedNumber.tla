-------------------------- MODULE MCSelectedNumber --------------------------
(***************************************************************************)
(* Instances of SelectedNumber for TLC.  Cie has no name; in one of the    *)
(* address books Ann and Cie share a number each of them writes in another *)
(* way, in the other Ann alone has it.                                     *)
(***************************************************************************)
EXTENDS SelectedNumber

CONSTANTS Ann, Cie

Conversion == [np |-> <<"0">>, ip |-> <<"+", "7">>,
               rules |-> << <<"I", " ", "#">>, <<"#", " ", "#">> >>]

National == <<"0", "6">>
International == <<"+", "7", "6">>

AnnCie == <<Ann, Cie>>
CieNameless == {Cie}

Shared == (Ann :> {National}) @@ (Cie :> {International})
AnnAlone == (Ann :> {National}) @@ (Cie :> {})
TwoBooks == {Shared, AnnAlone}

OneKey == {"6"}
OneText == {<<"0", " ", "6">>}

\* The instance is one the theorems are about.
ASSUME InstanceAssumption == Laid /\ Keyed
=============================================================================
