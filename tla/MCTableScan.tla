---------------------------- MODULE MCTableScan ----------------------------
EXTENDS TableScan
============================================================================
