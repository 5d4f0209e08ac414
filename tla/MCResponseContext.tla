------------------------- MODULE MCResponseContext -------------------------
(***************************************************************************)
(* ResponseContext for TLC: four targets, two of them with one contact.    *)
(***************************************************************************)
EXTENDS ResponseContext

CONSTANTS t1, t2, t3, t4, home, mobile, office

MCTargets   == {t1, t2, t3, t4}
MCContacts  == {home, mobile, office}
MCContactOf == [t \in MCTargets |->
  CASE t \in {t1, t4} -> home [] t = t2 -> mobile [] t = t3 -> office]
=============================================================================
