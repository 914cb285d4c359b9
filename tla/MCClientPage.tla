---------------------------- MODULE MCClientPage ----------------------------
EXTENDS ClientPage
CONSTANTS fa, en, nil
MCCultures == {fa, en}
=============================================================================
