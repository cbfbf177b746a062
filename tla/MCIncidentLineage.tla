------------------------- MODULE MCIncidentLineage -------------------------
EXTENDS IncidentLineage
=============================================================================
