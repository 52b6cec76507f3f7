----------------------------- MODULE MCCatalog -----------------------------
EXTENDS Catalog
=============================================================================
