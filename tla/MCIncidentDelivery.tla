------------------------- MODULE MCIncidentDelivery -------------------------
EXTENDS IncidentDelivery

=============================================================================
