--------------------------- MODULE MCModuleRegistry ---------------------------
EXTENDS ModuleRegistry

\* As many as vMI_multinstances has.
TwoModules == {1, 2}

=============================================================================
