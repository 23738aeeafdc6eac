--------------------------- MODULE MCRelationships ---------------------------
\* Small instances of Relationships.
EXTENDS Relationships
==============================================================================
