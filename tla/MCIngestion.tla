---------------------------- MODULE MCIngestion ----------------------------
\* Model-checking instances of Ingestion.
EXTENDS Ingestion

CONSTANTS s1, w1
=============================================================================
