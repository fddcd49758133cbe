--------------------------- MODULE MCConnectorSync ---------------------------
\* Two jobs of a connection to an account with three items, one for each job; the five
\* connectors one after the other.
EXTENDS ConnectorSources

MCJob == 1 .. 2
MCNobody == 0
MCProvider == {"gmail", "calendar", "gdrive", "slack", "notion"}

=============================================================================
