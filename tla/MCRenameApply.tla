--------------------------- MODULE MCRenameApply ---------------------------
EXTENDS RenameApplyInductive
=============================================================================
