-------------------------- MODULE MCVoterRegistration --------------------------
(* VoterRegistration with one passport and one account at an identity provider, *)
(* of the same country or of two.                                              *)
EXTENDS VoterRegistration, TLC

CONSTANTS passport, account, c1, GB, DE

MCOneCountry == passport :> GB @@ account :> GB
MCTwoCountries == passport :> GB @@ account :> DE
MCDerived == passport :> Unclaimed @@ account :> c1
MCPassportCountry == passport :> GB
MCPassportDerived == passport :> Unclaimed

Symmetry == Permutations(Requests)
==============================================================================
