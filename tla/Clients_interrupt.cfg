SPECIFICATION Spec
CONSTANTS
  Programs <- MCCoin
  Horizon = 3
PROPERTY NoConnectAfterInterrupt
