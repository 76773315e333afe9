------------------------------ MODULE MCBgJobs ------------------------------
EXTENDS BgJobs, TLC
CONSTANTS image, page
=============================================================================
