----------------------------- MODULE MCConsent ------------------------------
EXTENDS Consent
=============================================================================
