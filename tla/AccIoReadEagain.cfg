SPECIFICATION Spec
CONSTANTS
    NParas = 2
    Paras = 2
    MaxCount = 5
    MaxIov = 1
    MaxLen = 1
PROPERTIES
    EioMeansDmaFailed
