--------------------------- MODULE MCSourceReview ---------------------------
EXTENDS SourceReview
=============================================================================
