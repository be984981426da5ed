----------------------------- MODULE MCOffline -----------------------------
EXTENDS Offline

MCNetworks == <<"fox", "santos", "wilson">>
MCSplits   == {S \in SUBSET Names : Cardinality(S) >= 2}
=============================================================================
