----------------------------- MODULE MCDexLifecycle -----------------------------
EXTENDS DexLifecycle
=================================================================================
