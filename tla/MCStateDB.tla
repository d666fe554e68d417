------------------------------ MODULE MCStateDB ------------------------------
EXTENDS StateDB

CONSTANTS contract, wallet, coinbase
MCAddr == {contract, wallet, coinbase}
=============================================================================
